---- MODULE Spec2Model ----
(***************************************************************************)
(* nadeko: an SQLite virtual table that exposes the entries of an archive  *)
(* (or of a directory tree) as rows (filename, contents).  The model       *)
(* follows the version of the extension that has write-back (xBegin,       *)
(* xSync, xCommit, xRollback): src/unnamed/part_001, lines 241-922.        *)
(*                                                                         *)
(* Payloads are not enumerated byte by byte.  A payload is a record        *)
(* [size, segs]: size is the allocated length, segs the list of byte       *)
(* ranges written so far, each naming the source data it was copied from   *)
(* ([off, len, data, srcOff]: bytes off..off+len-1 hold bytes              *)
(* srcOff..srcOff+len-1 of the data stream `data`).  Bytes not covered by  *)
(* a segment are zero.  The copy loops below produce these segments chunk  *)
(* by chunk, as the C loops do.                                            *)
(***************************************************************************)
EXTENDS Integers, Sequences, FiniteSets, TLC

VARIABLES
    lines,        \* the lines_cursor of a scan of lines(data), and what it yielded
    conn,         \* the CREATE VIRTUAL TABLE statement and what xCreate / xConnect made of it
    archive,      \* the entries of the source, in the codec's enumeration order
    isFilesystem, \* nadeko_vtab.isFilesystem
    released,     \* history: number of times the read handle has been freed
    wide,         \* the ingestion of one entry, its sizes and rowids kept at 64 bits
    shadow,       \* a call of xShadowName: its argument and what it returned
    pArchive,     \* nadeko_vtab.pArchive: 1 = open read handle, 0 = NULL (freed)
    srcPos,       \* number of headers the read handle has consumed
    srcFatal,     \* the read handle is in libarchive's fatal state
    iKnown,       \* nadeko_vtab.iKnown
    iBegun,       \* nadeko_vtab.iBegun
    store,        \* the backing table <table>_store: rowid -> [filename, contents]
    cur,          \* the open nadeko_cursor objects
    files,        \* the file system: path -> content of the archive file there
    crashed,      \* the process was killed (dereference of a NULL handle)
    srcReads,     \* history: number of calls of nadekoArchiveNextHeader
    nFaults,      \* history: number of I/O faults injected so far
    nMut,         \* history: number of xUpdate calls so far
    nTxn,         \* history: number of transactions begun so far
    inserted,     \* history: rows written by xUpdate inserts and not touched by xUpdate since
    deleted,      \* history: rowids <= iKnown removed by xUpdate and not re-inserted by it
    failed,       \* history: rowids whose payload copy stopped on an error
    synced,       \* history: result of the last xSync that wrote, and whether the
                  \*          source had been read to its end by then
    last          \* history: what the last method call did and returned

vars == <<lines, conn, archive, wide, shadow, isFilesystem, released, pArchive, srcPos, srcFatal, iKnown, iBegun, store,
          cur, files, crashed, srcReads, nFaults, nMut, nTxn, inserted, deleted, failed,
          synced, last>>

(***************************************************************************)
(* Bounds of the model                                                     *)
(***************************************************************************)
MaxEntries == 2    \* longest source archive
MaxFaults == 1     \* I/O faults injected in one behaviour
MaxMut == 1        \* xUpdate calls in one behaviour
MaxTxn == 1        \* transactions begun in one behaviour
MaxReads == MaxEntries + 2   \* calls of the source adapter in one behaviour

(***************************************************************************)
(* Program constants                                                       *)
(***************************************************************************)
NADEKO_BUFFER_SIZE == 65536

Cursors == {"c1", "c2"}
(* A name is a sequence of characters. *)
Names == {<<"a">>, <<"b">>}       \* entry names of the source
UserNames == {<<"a">>, <<"x">>}   \* names given to xUpdate; "x" is no source entry
NameOrder ==                     \* all names, in the (BINARY) collation order of filename
    <<<<"a">>, <<"a", "m">>, <<"b">>, <<"s", "/", "b">>, <<"x">>>>
Sizes == {0, 70000}             \* payload sizes: empty, and more than one chunk
UserSizes == {5}                \* sizes of the payloads given to xUpdate
UserData == <<"user", 1>>      \* identity of the byte stream given to xUpdate
zFilename == "orig"             \* nadeko_vtab.zFilename
zTempname == "temp"             \* nadeko_vtab.zTempname, from tmpnam()
Absent == [exists |-> FALSE, entries |-> <<>>]   \* no file at a path
File(es) == [exists |-> TRUE, entries |-> es]    \* an archive file with entries es

Min(a, b) == IF a < b THEN a ELSE b
Max(a, b) == IF a > b THEN a ELSE b

(***************************************************************************)
(* Payloads                                                                *)
(***************************************************************************)
(* sqlite3_bind_zeroblob(stmt, i, n): a negative n gives an empty blob.    *)
(* Every size and rowid of this model is below 2^31, where the int         *)
(* parameters and locals of the C code hold the 64-bit values unchanged.   *)
ZeroBlob(n) == [size |-> Max(n, 0), segs |-> <<>>]

(* A contents value that is no byte sequence (SQL NULL, or a number):      *)
(* sqlite3_bind_value stores whatever value xUpdate is given.  Its size is *)
(* the marker -1; incremental blob I/O cannot open it.                     *)
NullValue == [size |-> 0 - 1, segs |-> <<>>]
IsBlob(b) == b.size >= 0

(* A payload of n bytes that holds exactly the first n bytes of stream d. *)
Whole(d, n) ==
    [size |-> n,
     segs |-> IF n = 0 THEN <<>>
              ELSE <<[off |-> 0, len |-> n, data |-> d, srcOff |-> 0]>>]

(* Append a written range, merging it with the previous one when it        *)
(* continues it (same stream, adjacent on both sides).                     *)
AppendSeg(segs, s) ==
    IF s.len = 0 THEN segs
    ELSE IF segs = <<>> THEN <<s>>
    ELSE LET l == segs[Len(segs)]
         IN  IF /\ l.data = s.data
                /\ l.off + l.len = s.off
                /\ l.srcOff + l.len = s.srcOff
             THEN [segs EXCEPT ![Len(segs)] = [l EXCEPT !.len = l.len + s.len]]
             ELSE Append(segs, s)

(* sqlite3_blob_write(pBlob, buf, n, iOffset): fails when the range does   *)
(* not lie inside the blob; the buffer holds bytes srcOff.. of stream d.   *)
BlobWriteOk(b, n, iOffset) == n >= 0 /\ iOffset >= 0 /\ iOffset + n <= b.size
BlobWrite(b, n, iOffset, d, srcOff) ==
    [b EXCEPT !.segs = AppendSeg(b.segs,
        [off |-> iOffset, len |-> n, data |-> d, srcOff |-> srcOff])]

(* The part of segment s inside [lo, hi), re-based to lo + shift. *)
ClipSeg(s, lo, hi, shift) ==
    LET a == Max(s.off, lo)
        b == Min(s.off + s.len, hi)
    IN  [off |-> a - lo + shift, len |-> Max(b - a, 0), data |-> s.data,
         srcOff |-> s.srcOff + (a - s.off)]

RECURSIVE AppendClipped(_, _, _, _, _, _)
AppendClipped(out, segs, i, lo, hi, shift) ==
    IF i > Len(segs) THEN out
    ELSE AppendClipped(AppendSeg(out, ClipSeg(segs[i], lo, hi, shift)),
                       segs, i + 1, lo, hi, shift)

(***************************************************************************)
(* The row store (an ordinary rowid table with filename TEXT PRIMARY KEY)  *)
(***************************************************************************)
Rowids(st) == DOMAIN st

MaxRowidOf(st) == IF Rowids(st) = {} THEN 0
                  ELSE CHOOSE r \in Rowids(st) : \A q \in Rowids(st) : q <= r

(* INSERT OR REPLACE INTO store (rowid, filename, contents) VALUES (?,?,?) *)
(* rowid 0 stands for NULL: the store picks the largest rowid plus one.    *)
(* REPLACE removes the row with the same rowid and, because filename is    *)
(* the PRIMARY KEY of the store, every row with the same filename.         *)
NewRowid(st, rowid) == IF rowid = 0 THEN MaxRowidOf(st) + 1 ELSE rowid

InsertOrReplace(st, rowid, filename, contents) ==
    LET r == NewRowid(st, rowid)
        keep == {q \in Rowids(st) : q # r /\ st[q].filename # filename}
    IN  [q \in keep \cup {r} |->
            IF q = r THEN [filename |-> filename, contents |-> contents]
            ELSE st[q]]

(* DELETE FROM store WHERE rowid = ? *)
DeleteRow(st, rowid) == [q \in Rowids(st) \ {rowid} |-> st[q]]

(***************************************************************************)
(* The Source Adapter                                                      *)
(***************************************************************************)
NoFault == [kind |-> "none", at |-> 0, fatal |-> FALSE]
ReadFaults ==
    {NoFault}
    \cup {[kind |-> "header", at |-> 0, fatal |-> ft] : ft \in BOOLEAN}
    \cup {[kind |-> "copy", at |-> k, fatal |-> ft] : k \in 0..1, ft \in BOOLEAN}

(* nadekoArchiveNextHeader: the next entry header, skipping directory      *)
(* entries when reading from disk (archive_format(a) = 0 there).           *)
(* Result: rc "OK" with the entry, "EOF", or "ERR"; pos and fatal are the  *)
(* state of the read handle afterwards.  A fatal error leaves the handle   *)
(* where it is and every later call fails; a non-fatal one (ARCHIVE_WARN,  *)
(* ARCHIVE_RETRY) has consumed the header.                                 *)
RECURSIVE NextHeaderFrom(_, _, _)
NextHeaderFrom(pos, fs, f) ==
    IF pos >= Len(archive)
    THEN [rc |-> "EOF", pos |-> pos, fatal |-> FALSE, faulted |-> FALSE]
    ELSE IF f.kind = "header"
    THEN [rc |-> "ERR", pos |-> IF f.fatal THEN pos ELSE pos + 1,
          fatal |-> f.fatal, faulted |-> TRUE]
    ELSE IF ~fs \/ ~archive[pos + 1].isDir
    THEN [rc |-> "OK", pos |-> pos + 1, fatal |-> FALSE, faulted |-> FALSE]
    ELSE NextHeaderFrom(pos + 1, fs, f)

nadekoArchiveNextHeader(f) ==
    IF srcFatal
    THEN [rc |-> "ERR", pos |-> srcPos, fatal |-> TRUE, faulted |-> FALSE]
    ELSE NextHeaderFrom(srcPos, isFilesystem, f)

(* An entry of the source is [pathname, size, sizeSet, data, isDir]: size   *)
(* is the number of data bytes the codec delivers for it, sizeSet tells    *)
(* whether its header declares that size (archive_entry_size_is_set).      *)
EntryDataLen(e) == e.size

(* archive_entry_size(entry): 0 when the header declares no size. *)
archive_entry_size(e) == IF e.sizeSet THEN e.size ELSE 0

(* The copy loop of nadekoFillBlobFromArchive: k counts the calls of       *)
(* archive_read_data, nRead the bytes delivered so far, iOffset is the     *)
(* int write offset.  An error result of archive_read_data is negative:    *)
(* the loop either returns SQLITE_ERROR itself or hands the negative       *)
(* length to sqlite3_blob_write, which fails.                              *)
(* FillLoop with the write offset never advanced. *)
RECURSIVE FillLoopStuck(_, _, _, _, _, _)
FillLoopStuck(b, e, iOffset, nRead, k, f) ==
    IF f.kind = "copy" /\ f.at = k
    THEN [rc |-> "ERROR", blob |-> b, faulted |-> TRUE]
    ELSE LET iRead == Min(NADEKO_BUFFER_SIZE, EntryDataLen(e) - nRead)
         IN  IF iRead = 0
             THEN [rc |-> "OK", blob |-> b, faulted |-> FALSE]
             ELSE IF ~BlobWriteOk(b, iRead, iOffset)
             THEN [rc |-> "ERROR", blob |-> b, faulted |-> FALSE]
             ELSE FillLoopStuck(BlobWrite(b, iRead, iOffset, e.data, nRead), e,
                                iOffset, nRead + iRead, k + 1, f)

RECURSIVE FillLoop(_, _, _, _, _, _)
FillLoop(b, e, iOffset, nRead, k, f) ==
    IF f.kind = "copy" /\ f.at = k
    THEN [rc |-> "ERROR", blob |-> b, faulted |-> TRUE]
    ELSE LET iRead == Min(NADEKO_BUFFER_SIZE, EntryDataLen(e) - nRead)
         IN  IF iRead = 0
             THEN [rc |-> "OK", blob |-> b, faulted |-> FALSE]
             ELSE IF ~BlobWriteOk(b, iRead, iOffset)
             THEN [rc |-> "ERROR", blob |-> b, faulted |-> FALSE]
             ELSE FillLoop(BlobWrite(b, iRead, iOffset, e.data, nRead), e,
                           iOffset + iRead, nRead + iRead, k + 1, f)

(* nadekoFillBlobFromArchive(a, db, zDb, zTable, "contents", iRowid):      *)
(* sqlite3_blob_open fails when the store has no row iRowid.               *)
nadekoFillBlobFromArchive(st, iRowid, e, f) ==
    IF iRowid \notin Rowids(st)
    THEN [rc |-> "ERROR", store |-> st, faulted |-> FALSE, opened |-> FALSE]
    ELSE LET r == iRowid
             res == FillLoop(st[r].contents, e, 0, 0, 0, f)
         IN  [rc |-> res.rc,
              store |-> [st EXCEPT ![r].contents = res.blob],
              faulted |-> res.faulted, opened |-> TRUE]

(***************************************************************************)
(* The Scan Cursor                                                         *)
(***************************************************************************)
(* NeedsIngest without the test of the read handle. *)
NeedsIngestNoHandleTest(iRowid) == iRowid > iKnown

(* The name nadekoNext gives the row of entry e: for a directory source    *)
(* the pathname advanced by strlen(zFilename) characters, and by one more  *)
(* if a '/' stands there.                                                  *)
EntryName(e) ==
    IF isFilesystem
    THEN LET p == SubSeq(e.pathname, Len(conn.zFilename) + 1, Len(e.pathname))
         IN  IF p # <<>> /\ p[1] = "/" THEN Tail(p) ELSE p
    ELSE e.pathname

(* The test of nadekoNext that decides whether the source is read. *)
NeedsIngest(iRowid) == pArchive # 0 /\ iRowid > iKnown

(* IngestRowid off by one: the last known row instead of the next one. *)
IngestRowidStale == IF iKnown = 0 THEN 1 ELSE iKnown

(* The rowid nadekoNext binds to the insert statement (sqlite3_bind_int). *)
IngestRowid == iKnown + 1

(* The read handle kept open at the end of the source. *)
HandleAfterEofKept == pArchive

(* pArchive after ARCHIVE_EOF: archive_read_free, then pArchive = 0. *)
HandleAfterEof == 0

(* iKnown counted up whatever the copy returned. *)
KnownAfterAlways(fillRc) == iKnown + 1

(* iKnown after nadekoFillBlobFromArchive returned fillRc. *)
KnownAfter(fillRc) == IF fillRc = "OK" THEN iKnown + 1 ELSE iKnown

(* The ingestion block of nadekoNext for target position iRowid. *)
Ingest(iRowid, f) ==
    LET h == nadekoArchiveNextHeader(f)
        same == [rc |-> "OK", store |-> store, iKnown |-> iKnown, pArchive |-> pArchive,
                 pos |-> h.pos, fatal |-> h.fatal, faulted |-> h.faulted,
                 read |-> TRUE, failedRow |-> 0, freed |-> FALSE]
    IN  CASE h.rc = "OK" ->
               LET e == archive[h.pos]
                   st1 == InsertOrReplace(store, IngestRowid, EntryName(e),
                                          ZeroBlob(archive_entry_size(e)))
                   fill == nadekoFillBlobFromArchive(st1, iRowid, e, f)
               IN  [same EXCEPT !.store = fill.store,
                                !.rc = IF fill.rc = "OK" THEN "OK" ELSE "ERROR",
                                !.iKnown = KnownAfter(fill.rc),
                                !.fatal = fill.faulted /\ f.fatal,
                                !.faulted = fill.faulted,
                                !.failedRow = IF fill.rc # "OK" /\ fill.opened
                                              THEN iRowid ELSE 0]
          [] h.rc = "EOF" -> [same EXCEPT !.pArchive = HandleAfterEof, !.freed = TRUE]
          [] OTHER -> [same EXCEPT !.rc = "ERROR"]

NoIngest ==
    [rc |-> "OK", store |-> store, iKnown |-> iKnown, pArchive |-> pArchive,
     pos |-> srcPos, fatal |-> srcFatal, faulted |-> FALSE, read |-> FALSE,
     failedRow |-> 0, freed |-> FALSE]

(* The row a cursor yields: what its select statement finds at iRowid. *)
RowAt(st, iRowid) ==
    [rowid |-> iRowid, filename |-> st[iRowid].filename, contents |-> st[iRowid].contents]

NullString == <<"NULL">>     \* a null char pointer; no string holds this character

(* What xColumn reads when the select statement stands on no row. *)
NoRow(iRowid) == [rowid |-> iRowid, filename |-> NullString, contents |-> NullValue]

(* sqlite3_step of the select statement for iRowid. *)
LookupStep(st, iRowid, f) ==
    IF f.kind = "lookup" THEN "ERROR"
    ELSE IF iRowid \in Rowids(st) THEN "ROW"
    ELSE "DONE"

(* iEof never set. *)
EofAfterNever(step, eof0) == eof0

(* iEof after the lookup: set when the step returned SQLITE_DONE. *)
EofAfter(step, eof0) == IF step = "DONE" THEN 1 ELSE eof0

(* The cursor moved on by two rows. *)
NextPositionSkip(r0) == r0 + 2

(* pCur->iRowid++ *)
NextPosition(r0) == r0 + 1

(* The table as nadekoConnect leaves it: nothing read, nothing stored. *)
FreshTable == iKnown = 0 /\ srcReads = 0 /\ Rowids(store) = {}

(* nadekoNext from position r0 with end-of-stream flag eof0; ys are the    *)
(* rows the scan has yielded so far, fresh tells whether the scan began on *)
(* a fresh table.                                                          *)
Advance(c, op, r0, eof0, ys, fresh, f) ==
    LET iRowid == NextPosition(r0)
        res == IF NeedsIngest(iRowid) THEN Ingest(iRowid, f) ELSE NoIngest
        step == LookupStep(res.store, iRowid, f)
        iEof == EofAfter(step, eof0)
        faulted == res.faulted \/ step = "ERROR"
    IN  /\ ~crashed
        /\ conn.phase = "open"
        /\ f.kind # "none" => faulted /\ nFaults < MaxFaults
        /\ res.read => srcReads < MaxReads
        /\ store' = res.store
        /\ iKnown' = res.iKnown
        /\ pArchive' = res.pArchive
        /\ srcPos' = res.pos
        /\ srcFatal' = res.fatal
        /\ srcReads' = IF res.read THEN srcReads + 1 ELSE srcReads
        /\ nFaults' = IF faulted THEN nFaults + 1 ELSE nFaults
        /\ failed' = IF res.failedRow # 0 THEN failed \cup {res.failedRow} ELSE failed
        /\ cur' = [cur EXCEPT ![c] =
                      [iRowid |-> iRowid, iEof |-> iEof, rc |-> res.rc, fresh |-> fresh,
                       yielded |-> IF res.rc = "OK" /\ iEof = 0
                                   THEN Append(ys, IF step = "ROW"
                                                   THEN RowAt(res.store, iRowid)
                                                   ELSE NoRow(iRowid))
                                   ELSE ys]]
        /\ last' = [op |-> op, begun |-> iBegun, rc |-> res.rc]
        /\ released' = IF res.freed THEN released + 1 ELSE released
        /\ UNCHANGED <<lines, conn, archive, wide, shadow, isFilesystem, crashed, iBegun, files, nMut, nTxn,
                       inserted, deleted, synced>>

(* xNext.  SQLite calls it only on a cursor that is on a row: the last     *)
(* xFilter/xNext returned SQLITE_OK and xEof is false.                     *)
Positioned(c) == cur[c].rc = "OK" /\ cur[c].iEof = 0 /\ cur[c].iRowid > 0

nadekoNext(c) ==
    /\ Positioned(c)
    /\ Advance(c, "next", cur[c].iRowid, cur[c].iEof, cur[c].yielded, cur[c].fresh, NoFault)

(* xFilter: rewind to position 0, clear the flag, advance once. *)
nadekoFilter(c) ==
    /\ c \in Cursors
    /\ Advance(c, "filter", 0, 0, <<>>, FreshTable, NoFault)

(* The same two methods when the step of the select statement fails. *)
LookupFault == [kind |-> "lookup", at |-> 0, fatal |-> FALSE]

nadekoNextLookupFault(c) ==
    /\ Positioned(c)
    /\ Advance(c, "next", cur[c].iRowid, cur[c].iEof, cur[c].yielded, cur[c].fresh,
               LookupFault)

nadekoFilterLookupFault(c) ==
    /\ c \in Cursors
    /\ Advance(c, "filter", 0, 0, <<>>, FreshTable, LookupFault)

(* The same two methods when a read of the source fails. *)
nadekoNextFault(c) ==
    /\ Positioned(c)
    /\ \E f \in ReadFaults \ {NoFault} :
          Advance(c, "next", cur[c].iRowid, cur[c].iEof, cur[c].yielded, cur[c].fresh, f)

nadekoFilterFault(c) ==
    /\ c \in Cursors
    /\ \E f \in ReadFaults \ {NoFault} : Advance(c, "filter", 0, 0, <<>>, FreshTable, f)

(***************************************************************************)
(* The Mutation Log (xUpdate)                                              *)
(***************************************************************************)
UserPayloads == {Whole(UserData, n) : n \in UserSizes}

(* xUpdate with argc = 1: DELETE FROM store WHERE rowid = argv[0].         *)
(* SQLite passes the rowid of a row a scan has found.                      *)
nadekoUpdateDelete(rowid) ==
    /\ ~crashed
    /\ nMut < MaxMut
    /\ rowid \in Rowids(store)
    /\ store' = DeleteRow(store, rowid)
    /\ nMut' = nMut + 1
    /\ inserted' = {x \in inserted : x.rowid # rowid}
    /\ deleted' = IF rowid <= iKnown THEN deleted \cup {rowid} ELSE deleted
    /\ last' = [op |-> "delete", begun |-> iBegun, rc |-> "OK"]
    /\ UNCHANGED <<lines, conn, archive, wide, shadow, isFilesystem, released, crashed, pArchive, srcPos, srcFatal, iKnown,
                   iBegun, cur, files, srcReads, nFaults, nTxn, failed, synced>>

(* The value *pRowid has when SQLite calls xUpdate. *)
PRowidIn == 0

(* What nadekoUpdate returns after sqlite3_step(pInsert), and the value it *)
(* leaves in *pRowid; r is the rowid of the row the statement wrote.  The  *)
(* step result is tested for non-zero, and neither SQLITE_DONE nor an      *)
(* error code is zero: the branch that finalizes the statement and returns *)
(* sqlite3_extended_errcode(db) is always taken (after the finalize that   *)
(* code is SQLITE_OK when the step completed), and the assignment of       *)
(* sqlite3_last_insert_rowid(db) to *pRowid is never reached.              *)
UpdateInsertResult(stepRc, r) ==
    IF stepRc # "OK"
    THEN [rc |-> IF stepRc = "DONE" THEN "OK" ELSE "ERROR", rowid |-> PRowidIn]
    ELSE [rc |-> "OK", rowid |-> r]

(* xUpdate with argc > 1: INSERT OR REPLACE INTO store (rowid, filename,   *)
(* contents) VALUES (argv[1], argv[2], argv[3]); rowid 0 stands for NULL.  *)
nadekoUpdateInsert(rowid, filename, contents) ==
    LET r == NewRowid(store, rowid)
    IN  /\ ~crashed
        /\ nMut < MaxMut
        /\ store' = InsertOrReplace(store, rowid, filename, contents)
        /\ nMut' = nMut + 1
        /\ inserted' = {x \in inserted : x.rowid # r /\ x.filename # filename}
                       \cup {[rowid |-> r, filename |-> filename, contents |-> contents]}
        /\ deleted' = deleted \ {r}
        /\ last' = [op |-> "insert", begun |-> iBegun,
                    rc |-> UpdateInsertResult("DONE", r).rc,
                    rowid |-> UpdateInsertResult("DONE", r).rowid]
        /\ UNCHANGED <<lines, conn, archive, wide, shadow, isFilesystem, released, crashed, pArchive, srcPos, srcFatal, iKnown,
                       iBegun, cur, files, srcReads, nFaults, nTxn, failed, synced>>

(* xUpdate when the step of its statement fails in the store (SQLITE_BUSY,  *)
(* SQLITE_FULL, an I/O error): nothing is written.  The delete branch does *)
(* not look at the result of sqlite3_step and returns SQLITE_OK.           *)
nadekoUpdateDeleteStoreFault(rowid) ==
    /\ ~crashed
    /\ nMut < MaxMut
    /\ nFaults < MaxFaults
    /\ rowid \in Rowids(store)
    /\ nMut' = nMut + 1
    /\ nFaults' = nFaults + 1
    /\ last' = [op |-> "delete", begun |-> iBegun, rc |-> "OK"]
    /\ UNCHANGED <<lines, conn, archive, wide, shadow, isFilesystem, released, crashed, pArchive, srcPos, srcFatal, iKnown,
                   iBegun, store, cur, files, srcReads, nTxn, inserted, deleted, failed,
                   synced>>

nadekoUpdateInsertStoreFault(rowid, filename, contents) ==
    LET r == NewRowid(store, rowid)
    IN  /\ ~crashed
        /\ nMut < MaxMut
        /\ nFaults < MaxFaults
        /\ nMut' = nMut + 1
        /\ nFaults' = nFaults + 1
        /\ last' = [op |-> "insert", begun |-> iBegun,
                    rc |-> UpdateInsertResult("ERROR", r).rc,
                    rowid |-> UpdateInsertResult("ERROR", r).rowid]
        /\ UNCHANGED <<lines, conn, archive, wide, shadow, isFilesystem, released, crashed, pArchive, srcPos, srcFatal, iKnown,
                       iBegun, store, cur, files, srcReads, nTxn, inserted, deleted,
                       failed, synced>>

(***************************************************************************)
(* The Write-Back Serializer (xBegin, xSync, xCommit, xRollback)           *)
(***************************************************************************)
(* An entry of an archive file: the header's pathname and size, and the    *)
(* data stored for it (len bytes, described by segs).                      *)
FileEntry(e) ==
    [pathname |-> e.pathname, size |-> e.size,
     segs |-> Whole(e.data, EntryDataLen(e)).segs, len |-> EntryDataLen(e)]

FileOf(a) == File([k \in 1..Len(a) |-> FileEntry(a[k])])

NotSynced == [rc |-> "NONE", full |-> FALSE]

(* ReadOnlySource when xBegin accepts every source. *)
ReadOnlySourceNever == FALSE

(* The test of nadekoBegin: a directory is not writable. *)
ReadOnlySource == isFilesystem

nadekoBegin ==
    /\ ~crashed
    /\ iBegun = 0 => nTxn < MaxTxn
    /\ IF ReadOnlySource
       THEN /\ iBegun' = iBegun
            /\ last' = [op |-> "begin", begun |-> iBegun, rc |-> "ERROR"]
       ELSE /\ iBegun' = 1
            /\ last' = [op |-> "begin", begun |-> iBegun, rc |-> "OK"]
    /\ nTxn' = IF iBegun = 0 THEN nTxn + 1 ELSE nTxn
    /\ synced' = IF iBegun = 0 THEN NotSynced ELSE synced
    /\ UNCHANGED <<lines, conn, archive, wide, shadow, isFilesystem, released, crashed, pArchive, srcPos, srcFatal, iKnown,
                   store, cur, files, srcReads, nFaults, nMut, inserted, deleted, failed>>

(* The size of one chunk of nadekoFillArchiveFromBlob. *)
ChunkLen(iOffset, iBytes) ==
    IF iOffset + NADEKO_BUFFER_SIZE < iBytes THEN NADEKO_BUFFER_SIZE ELSE iBytes - iOffset

(* nadekoFillArchiveFromBlob: copy the blob b into the open archive entry  *)
(* ent, chunk by chunk; k counts the chunks, f names the chunk whose write *)
(* fails.                                                                  *)
RECURSIVE FillArchiveLoop(_, _, _, _, _, _)
FillArchiveLoop(ent, b, iBytes, iOffset, k, f) ==
    IF ~(iOffset < iBytes) THEN [rc |-> "OK", ent |-> ent]
    ELSE LET iWrite == ChunkLen(iOffset, iBytes)
         IN  IF iOffset + iWrite > b.size \/ (f.kind = "copy" /\ f.at = k)
             THEN [rc |-> "ERROR", ent |-> ent]
             ELSE FillArchiveLoop(
                      [ent EXCEPT !.segs = AppendClipped(ent.segs, b.segs, 1, iOffset,
                                                         iOffset + iWrite, ent.len),
                                  !.len = ent.len + iWrite],
                      b, iBytes, iOffset + NADEKO_BUFFER_SIZE, k + 1, f)

nadekoFillArchiveFromBlob(ent, b, f) ==
    FillArchiveLoop(ent, b, b.size, 0, 0, f)

NoSyncFault == [kind |-> "none", row |-> 0, at |-> 0]
SyncFaults ==
    {NoSyncFault}
    \cup {[kind |-> "header", row |-> i, at |-> 0] : i \in 1..(MaxEntries + MaxMut)}
    \cup {[kind |-> "copy", row |-> i, at |-> k] : i \in 1..(MaxEntries + MaxMut), k \in 0..1}

(* The rowids of the store in the order the select statement of nadekoSync *)
(* steps through them.  The statement reads filename and rowid only and    *)
(* has no ORDER BY: SQLite scans the index of the PRIMARY KEY, which holds *)
(* both, in the order of the filenames.  No two rows share a filename.     *)
RECURSIVE RowsByName(_, _)
RowsByName(st, i) ==
    IF i > Len(NameOrder) THEN <<>>
    ELSE LET rs == {r \in Rowids(st) : st[r].filename = NameOrder[i]}
         IN  (IF rs = {} THEN <<>> ELSE <<CHOOSE r \in rs : TRUE>>)
                 \o RowsByName(st, i + 1)

RowOrder(st) == RowsByName(st, 1)

(* The blob handle pBlob of nadekoSync after the row's sqlite3_blob_open   *)
(* (h = "none": pBlob is NULL) or sqlite3_blob_reopen; the results of both *)
(* calls are ignored.  Opening a value that is no byte sequence fails: a   *)
(* failed open leaves pBlob NULL, a failed reopen aborts the handle, and   *)
(* every later reopen of an aborted handle fails too.                      *)
BlobHandle(h, contents) ==
    IF h = "aborted" THEN "aborted"
    ELSE IF IsBlob(contents) THEN "open"
    ELSE IF h = "none" THEN "none" ELSE "aborted"

(* What the handle gives access to: sqlite3_blob_bytes is 0 for a NULL or  *)
(* aborted handle.                                                         *)
BlobView(h, contents) == IF h = "open" THEN contents ELSE ZeroBlob(0)

(* The row loop of nadekoSync: out is the archive written so far, h0 the   *)
(* blob handle left by the previous row.                                   *)
RECURSIVE SyncLoop(_, _, _, _, _)
SyncLoop(rows, i, out, h0, f) ==
    IF i > Len(rows) THEN [rc |-> "OK", out |-> out, faulted |-> FALSE]
    ELSE LET h == BlobHandle(h0, store[rows[i]].contents)
             b == BlobView(h, store[rows[i]].contents)
             hdr == [pathname |-> store[rows[i]].filename, size |-> b.size,
                     segs |-> <<>>, len |-> 0]
             w == nadekoFillArchiveFromBlob(hdr, b, IF f.row = i THEN f ELSE NoSyncFault)
         IN  IF f.kind = "header" /\ f.row = i
             THEN [rc |-> "ERROR", out |-> out, faulted |-> TRUE]
             ELSE IF w.rc # "OK"
             THEN [rc |-> "ERROR", out |-> Append(out, w.ent), faulted |-> TRUE]
             ELSE SyncLoop(rows, i + 1, Append(out, w.ent), h, f)

(* The archive nadekoSync leaves at zTempname, and its return code. *)
SyncResult(f) == SyncLoop(RowOrder(store), 1, <<>>, "none", f)

(* SyncTarget when the writer is opened at the archive itself. *)
SyncTargetInPlace == zFilename

(* The path nadekoSync opens its archive writer at. *)
SyncTarget == zTempname

(* The error paths of nadekoSync call archive_error_string(pArchive) on    *)
(* the read handle of the source, which is NULL once the source has been   *)
(* read to its end; the call dereferences it.  Either the process is       *)
(* killed there ("CRASH") or the read goes through and the method returns  *)
(* its error.                                                              *)
SyncOutcomes(res) ==
    IF res.rc = "OK" THEN {"OK"}
    ELSE IF pArchive = 0 THEN {"ERROR", "CRASH"}
    ELSE {"ERROR"}

(* nadekoSync in a begun transaction; f names the write that fails. *)
SyncWith(f) ==
    LET res == SyncResult(f)
    IN  /\ f.kind # "none" => res.faulted /\ nFaults < MaxFaults
        /\ files' = [files EXCEPT ![SyncTarget] = File(res.out)]
        /\ nFaults' = IF res.faulted THEN nFaults + 1 ELSE nFaults
        /\ \E rc \in SyncOutcomes(res) :
              /\ crashed' = (rc = "CRASH")
              /\ synced' = [rc |-> rc, full |-> pArchive = 0]
              /\ last' = [op |-> "sync", begun |-> iBegun, rc |-> rc]
        /\ UNCHANGED <<lines, conn, archive, wide, shadow, isFilesystem, released, pArchive, srcPos, srcFatal, iKnown, iBegun,
                       store, cur, srcReads, nMut, nTxn, inserted, deleted, failed>>

(* SyncSkipped when xSync does not test the transaction flag. *)
SyncSkippedNever == FALSE

(* The first test of nadekoSync: nothing to do outside a transaction. *)
SyncSkipped == iBegun = 0

nadekoSync ==
    /\ ~crashed
    /\ IF SyncSkipped
       THEN /\ last' = [op |-> "sync", begun |-> iBegun, rc |-> "OK"]
            /\ UNCHANGED <<lines, conn, archive, wide, shadow, isFilesystem, released, pArchive, srcPos, srcFatal, iKnown,
                           iBegun, store, cur, files, crashed, srcReads, nFaults, nMut,
                           nTxn, inserted, deleted, failed, synced>>
       ELSE SyncWith(NoSyncFault)

(* xSync when a header write or a payload copy fails. *)
nadekoSyncFault ==
    /\ ~crashed
    /\ iBegun # 0
    /\ \E f \in SyncFaults \ {NoSyncFault} : SyncWith(f)

(* nadekoSync when sqlite3_step(pSelect) fails instead of delivering row i  *)
(* (or SQLITE_DONE after the last row): the `default:` branch leaves the   *)
(* loop with rc as it is, which is SQLITE_OK; the rows before i have been  *)
(* written.                                                                *)
SyncStoreFault(i) ==
    LET res == SyncLoop(SubSeq(RowOrder(store), 1, i - 1), 1, <<>>, "none", NoSyncFault)
    IN  /\ files' = [files EXCEPT ![SyncTarget] = File(res.out)]
        /\ nFaults' = nFaults + 1
        /\ crashed' = crashed
        /\ synced' = [rc |-> res.rc, full |-> pArchive = 0]
        /\ last' = [op |-> "sync", begun |-> iBegun, rc |-> res.rc]
        /\ UNCHANGED <<lines, conn, archive, wide, shadow, isFilesystem, released, pArchive, srcPos, srcFatal, iKnown, iBegun,
                       store, cur, srcReads, nMut, nTxn, inserted, deleted, failed>>

nadekoSyncStoreFault ==
    /\ ~crashed
    /\ iBegun # 0
    /\ nFaults < MaxFaults
    /\ \E i \in 1..(Cardinality(Rowids(store)) + 1) : SyncStoreFault(i)

(* rename(zTempname, zFilename) fails when there is no file at zTempname,  *)
(* or for a reason of the file system (renameFails).                       *)
RenameOk(renameFails) == files[zTempname] # Absent /\ ~renameFails

(* CommitFiles without the remove() after a failed rename. *)
CommitFilesNoRemove(renameFails) ==
    IF RenameOk(renameFails)
    THEN [files EXCEPT ![zFilename] = files[zTempname], ![zTempname] = Absent]
    ELSE files

(* The file system after the rename / remove calls of nadekoCommit. *)
CommitFiles(renameFails) ==
    IF RenameOk(renameFails)
    THEN [files EXCEPT ![zFilename] = files[zTempname], ![zTempname] = Absent]
    ELSE [files EXCEPT ![zTempname] = Absent]

(* nadekoCommit in a begun transaction. *)
CommitWith(renameFails) ==
    /\ renameFails => nFaults < MaxFaults /\ files[zTempname] # Absent
    /\ iBegun' = 0
    /\ files' = CommitFiles(renameFails)
    /\ nFaults' = IF renameFails THEN nFaults + 1 ELSE nFaults
    /\ last' = [op |-> "commit", begun |-> iBegun,
                rc |-> IF RenameOk(renameFails) THEN "OK" ELSE "ERROR"]
    /\ UNCHANGED <<lines, conn, archive, wide, shadow, isFilesystem, released, crashed, pArchive, srcPos, srcFatal, iKnown,
                   store, cur, srcReads, nMut, nTxn, inserted, deleted, failed, synced>>

(* nadekoCommit without the test of iBegun. *)
CommitSkippedNever == FALSE

(* The test that makes nadekoCommit return at once. *)
CommitSkipped == iBegun = 0

nadekoCommit ==
    /\ ~crashed
    /\ IF CommitSkipped
       THEN /\ last' = [op |-> "commit", begun |-> iBegun, rc |-> "OK"]
            /\ UNCHANGED <<lines, conn, archive, wide, shadow, isFilesystem, released, pArchive, srcPos, srcFatal, iKnown,
                           iBegun, store, cur, files, crashed, srcReads, nFaults, nMut,
                           nTxn, inserted, deleted, failed, synced>>
       ELSE CommitWith(FALSE)

(* xCommit when the file system refuses the rename. *)
nadekoCommitFault ==
    /\ ~crashed
    /\ iBegun # 0
    /\ CommitWith(TRUE)

(* RollbackFiles without the remove(). *)
RollbackFilesNoRemove == files

(* The file system after the remove call of nadekoRollback. *)
RollbackFiles == [files EXCEPT ![zTempname] = Absent]

nadekoRollback ==
    /\ ~crashed
    /\ IF iBegun = 0
       THEN /\ last' = [op |-> "rollback", begun |-> iBegun, rc |-> "OK"]
            /\ UNCHANGED <<iBegun, files>>
       ELSE /\ iBegun' = 0
            /\ files' = RollbackFiles
            /\ last' = [op |-> "rollback", begun |-> iBegun, rc |-> "OK"]
    /\ UNCHANGED <<lines, conn, archive, wide, shadow, isFilesystem, released, crashed, pArchive, srcPos, srcFatal, iKnown,
                   store, cur, srcReads, nFaults, nMut, nTxn, inserted, deleted, failed,
                   synced>>

(***************************************************************************)
(* Creation and opening of the table: CREATE VIRTUAL TABLE t USING         *)
(* nadeko(<arguments>).  A string is a sequence of characters; argv holds  *)
(* the module arguments, that is argv[3..] of the C signature (argv[0..2]  *)
(* are the module, database and table names and are always there).        *)
(***************************************************************************)
MaxArgLen == 3    \* longest module argument
MaxArgs == 2      \* most module arguments

Chars == {"'", "\"", "x"}

RECURSIVE StringsOfLen(_)
StringsOfLen(n) ==
    IF n = 0 THEN {<<>>}
    ELSE {Append(s, ch) : s \in StringsOfLen(n - 1), ch \in Chars}

Strings == UNION {StringsOfLen(n) : n \in 0..MaxArgLen}

RECURSIVE ArgLists(_)
ArgLists(n) ==
    IF n = 0 THEN {<<>>}
    ELSE {Append(a, s) : a \in ArgLists(n - 1), s \in Strings}

QuoteMatchesAlways(z) == TRUE

QuoteMatches(z) == z[1] = z[Len(z)]

nadekoUnquote(z) ==
    IF Len(z) < 2 THEN NullString
    ELSE IF z[1] # "\"" /\ z[1] # "'" THEN NullString
    ELSE IF ~QuoteMatches(z) THEN NullString
    ELSE SubSeq(z, 2, Len(z) - 1)

(* What nadekoIsDirectory and nadekoOpenArchive / nadekoOpenDirectory find *)
(* at the location, and whether tmpnam() delivers a name.                  *)
ConnectEnvs == {"archive", "directory", "none", "notmpnam"}

(* The statement before xCreate / xConnect ran. *)
Declared(args, had) ==
    [phase |-> "declared", via |-> "none", argv |-> args, hadStore |-> had,
     storeTable |-> had,
     pVtab |-> FALSE, pArchive |-> FALSE, isFilesystem |-> FALSE,
     zFilename |-> NullString, location |-> NullString, rc |-> "NONE", zErr |-> ""]

(* archive_read_free counted as a release whatever the pointer. *)
FreeAtDisconnectAlways == TRUE

(* archive_read_free(pNdk->pArchive) in nadekoDisconnect releases the read *)
(* handle unless the pointer is NULL.                                      *)
FreeAtDisconnect == pArchive # 0

ReleasedAfterDisconnect == IF FreeAtDisconnect THEN released + 1 ELSE released

nadekoDisconnectLeak(c) == c

(* nadekoDisconnect: every allocation of the handle is released. *)
nadekoDisconnectOf(c) ==
    [c EXCEPT !.pVtab = FALSE, !.pArchive = FALSE, !.zFilename = NullString]

(* nadekoConnect, on the handle it has just allocated. *)
ConnectResult(c, env) ==
    LET new == [c EXCEPT !.pVtab = TRUE] IN
    IF Len(c.argv) + 3 # 4
    THEN [nadekoDisconnectOf(new) EXCEPT !.phase = "failed", !.rc = "ERROR",
              !.zErr = "wrong number of arguments to nadeko()"]
    ELSE IF nadekoUnquote(c.argv[1]) = NullString
    THEN [nadekoDisconnectOf(new) EXCEPT !.phase = "failed", !.rc = "ERROR",
              !.zErr = "first argument to nadeko() not a string"]
    ELSE LET named == [new EXCEPT !.zFilename = nadekoUnquote(c.argv[1])] IN
         IF env = "notmpnam"
         THEN [named EXCEPT !.phase = "failed", !.rc = "NOMEM"]
         ELSE LET opened == [named EXCEPT !.location = named.zFilename,
                                          !.isFilesystem = (env = "directory")] IN
              IF env = "none"
              THEN [nadekoDisconnectOf(opened) EXCEPT !.phase = "failed",
                        !.rc = "ERROR", !.zErr = "archive_error_string"]
              ELSE [opened EXCEPT !.phase = "open", !.pArchive = TRUE, !.rc = "OK"]

(* SQLite undoes the schema changes of a statement whose xCreate failed. *)
StatementEnd(c) ==
    IF c.rc = "OK" THEN c ELSE [c EXCEPT !.storeTable = c.hadStore]

ConnUnchanged ==
    UNCHANGED <<lines, archive, wide, shadow, isFilesystem, pArchive, srcPos, srcFatal, iKnown, iBegun, store,
                cur, files, crashed, srcReads, nFaults, nMut, nTxn, inserted, deleted,
                failed, synced, last>>

(* xConnect: the table is in the schema already (the database is reopened). *)
nadekoConnect(env) ==
    /\ conn.phase = "declared"
    /\ conn' = ConnectResult([conn EXCEPT !.via = "xConnect"], env)
    /\ released' = released
    /\ ConnUnchanged

(* xCreate: CREATE TABLE IF NOT EXISTS <table>_store, then nadekoConnect. *)
nadekoCreate(env) ==
    /\ conn.phase = "declared"
    /\ conn' = StatementEnd(ConnectResult([conn EXCEPT !.via = "xCreate",
                                                        !.storeTable = TRUE], env))
    /\ released' = released
    /\ ConnUnchanged

nadekoDisconnect ==
    /\ conn.phase = "open"
    /\ conn' = [nadekoDisconnectOf(conn) EXCEPT !.phase = "closed", !.rc = "OK"]
    /\ released' = ReleasedAfterDisconnect
    /\ ConnUnchanged

(* xDestroy: DROP TABLE <table>_store, then nadekoDisconnect. *)
nadekoDestroy ==
    /\ conn.phase = "open"
    /\ conn' = IF conn.storeTable
               THEN [nadekoDisconnectOf(conn) EXCEPT !.phase = "closed", !.rc = "OK",
                         !.storeTable = FALSE]
               ELSE [conn EXCEPT !.rc = "ERROR"]
    /\ released' = IF conn.storeTable THEN ReleasedAfterDisconnect ELSE released
    /\ ConnUnchanged

(* The connection the table-level specifications start from. *)
ConnOpen ==
    ConnectResult([Declared(<<<<"'", "x", "'">>>>, TRUE) EXCEPT !.via = "xConnect"],
                  "archive")

(***************************************************************************)
(* lines: the table-valued function lines(data) of src/unnamed/part_002.   *)
(* A value is a sequence of bytes; only line feed, carriage return and one *)
(* other byte are told apart.  The variable lines is the lines_cursor.     *)
(***************************************************************************)
MaxData == 3      \* longest argument of lines()
MaxFilters == 2   \* xFilter calls on one cursor
MaxRows == MaxData + 2   \* rows one scan is followed for

Bytes == {"LF", "CR", "a"}

RECURSIVE DataOfLen(_)
DataOfLen(n) ==
    IF n = 0 THEN {<<>>}
    ELSE {Append(s, b) : s \in DataOfLen(n - 1), b \in Bytes}

Data == UNION {DataOfLen(n) : n \in 0..MaxData}

(* linesOpen: the cursor is zeroed, pBuffer is NULL. *)
LinesNew ==
    [phase |-> "open", type |-> "NULL", data |-> <<>>, iRowid |-> 0, iOffset |-> 0,
     iLength |-> 0, iBytes |-> 0, hasBuffer |-> FALSE, pBuffer |-> <<>>,
     yielded |-> <<>>, crashed |-> FALSE, outside |-> FALSE, rc |-> "OK", nFilters |-> 0]

(* linesEof *)
linesEof(l) == l.iOffset >= l.iBytes

(* linesColumn for column line: iLength bytes of the buffer from iOffset. *)
linesColumn(l) == SubSeq(l.pBuffer, l.iOffset + 1, l.iOffset + l.iLength)

(* The body of linesNext on cursor l.  cr says what the read of            *)
(* pBuffer[iOffset] delivers when iOffset is past the allocation: a        *)
(* carriage return or not.  With pBuffer NULL the read ends the process.   *)
(* The field outside records that a read past the allocation took place.   *)
LinesStep(l, cr) ==
    LET o1 == l.iOffset + l.iLength
        o2 == IF o1 # 0 THEN o1 + 1 ELSE o1
        isCR == IF o2 < Len(l.pBuffer) THEN l.pBuffer[o2 + 1] = "CR" ELSE cr
        o3 == IF isCR THEN o2 + 1 ELSE o2
        nl == {p \in o3..(l.iBytes - 1) : l.pBuffer[p + 1] = "LF"}
        at == [l EXCEPT !.outside = @ \/ o2 >= Len(l.pBuffer)]
    IN  IF ~l.hasBuffer THEN [l EXCEPT !.crashed = TRUE]
        ELSE IF o3 >= l.iBytes THEN [at EXCEPT !.iOffset = o3, !.rc = "OK"]
        ELSE [at EXCEPT !.iOffset = o3,
                       !.iLength = IF nl # {}
                                   THEN (CHOOSE p \in nl : \A q \in nl : p <= q) - o3
                                   ELSE l.iBytes - o3,
                       !.iRowid = @ + 1,
                       !.rc = "OK"]

(* What the statement does after xFilter / xNext returned: it asks xEof and *)
(* reads column line of the row the cursor stands on.                      *)
LinesRead(l) ==
    IF l.crashed \/ l.rc # "OK" THEN [l EXCEPT !.phase = "error"]
    ELSE IF linesEof(l) THEN [l EXCEPT !.phase = "eof"]
    ELSE [l EXCEPT !.phase = "row", !.yielded = Append(@, linesColumn(l))]

(* The copy of linesFilter into the buffer: a new allocation of iBytes     *)
(* bytes when the value is longer than the previous one, else the old      *)
(* buffer with its first iBytes bytes overwritten.                         *)
LinesBuffer(l, d) ==
    IF Len(d) > l.iBytes
    THEN [l EXCEPT !.hasBuffer = TRUE, !.pBuffer = d]
    ELSE [l EXCEPT !.pBuffer = d \o SubSeq(l.pBuffer, Len(d) + 1, Len(l.pBuffer))]

LinesUnchanged ==
    UNCHANGED <<conn, archive, wide, shadow, isFilesystem, released, pArchive, srcPos, srcFatal, iKnown, iBegun,
                store, cur, files, crashed, srcReads, nFaults, nMut, nTxn, inserted,
                deleted, failed, synced, last>>

(* The fields linesFilter sets before it looks at the type of the value. *)
LinesReset(l, type, d) ==
    [l EXCEPT !.type = type, !.data = d, !.iBytes = Len(d), !.iLength = 0,
              !.iOffset = 0, !.yielded = <<>>, !.nFilters = @ + 1]

linesFilter(type, d, cr) ==
    /\ ~lines.crashed
    /\ lines.nFilters < MaxFilters
    /\ lines' = IF type \in {"TEXT", "BLOB"}
                THEN LinesRead(LinesStep(LinesReset(LinesBuffer(lines, d), type, d), cr))
                ELSE [LinesReset(lines, type, d) EXCEPT !.rc = "ERROR", !.phase = "error"]
    /\ LinesUnchanged

linesNext(cr) ==
    /\ ~lines.crashed
    /\ lines.phase = "row"
    /\ Len(lines.yielded) < MaxRows
    /\ lines' = LinesRead(LinesStep(lines, cr))
    /\ LinesUnchanged

(***************************************************************************)
(* Ingestion at full width.  archive_entry_size and iKnown are 64-bit      *)
(* integers; the value [hi, lo] stands for hi * 2^16 + lo, 0 <= lo < 2^16. *)
(* A C int holds the values with -2^15 <= hi < 2^15.                       *)
(***************************************************************************)
Half == 65536            \* 2^16
IntHalf == 32768         \* 2^15
SQLITE_MAX_LENGTH == 1000000000

W(hi, lo) == [hi |-> hi, lo |-> lo]

WidePlusOne(v) == IF v.lo + 1 = Half THEN W(v.hi + 1, 0) ELSE W(v.hi, v.lo + 1)

(* The conversion of a 64-bit value to the int parameter of                *)
(* sqlite3_bind_zeroblob and of sqlite3_bind_int: the low 32 bits.         *)
ToInt(v) == W(((v.hi + IntHalf) % Half) - IntHalf, v.lo)

(* The number an int stands for. *)
IntValue(n) == n.hi * Half + n.lo

(* The entry before nadekoNext has bound anything: its declared size and   *)
(* the value of iKnown.                                                    *)
WideNew(size, known) ==
    [phase |-> "header", size |-> size, known |-> known, n |-> W(0, 0),
     rowid |-> W(0, 0), slot |-> 0 - 1, iOffset |-> 0, copied |-> W(0, 0)]

WideUnchanged ==
    UNCHANGED <<lines, conn, archive, shadow, isFilesystem, released, pArchive, srcPos,
                srcFatal, iKnown, iBegun, store, cur, files, crashed, srcReads, nFaults,
                nMut, nTxn, inserted, deleted, failed, synced, last>>

(* sqlite3_bind_int(pInsert, 1, iKnown + 1) and                            *)
(* sqlite3_bind_zeroblob(pInsert, 3, archive_entry_size(pEntry)).          *)
IngestBind ==
    /\ wide.phase = "header"
    /\ wide' = [wide EXCEPT !.phase = "bound", !.n = ToInt(wide.size),
                            !.rowid = ToInt(WidePlusOne(wide.known))]
    /\ WideUnchanged

(* sqlite3_step(pInsert): a negative length gives an empty blob; a row of  *)
(* more than SQLITE_MAX_LENGTH bytes is refused and the result ignored     *)
(* (slot -1: no row).                                                      *)
IngestStep ==
    /\ wide.phase = "bound"
    /\ wide' = [wide EXCEPT !.phase = "stored",
                            !.slot = IF wide.n.hi < 0 THEN 0
                                     ELSE IF IntValue(wide.n) >= SQLITE_MAX_LENGTH THEN 0 - 1
                                     ELSE IntValue(wide.n)]
    /\ WideUnchanged

(* What archive_read_data delivers next: at most one buffer of the data    *)
(* that is left; the data is as long as the declared size.                 *)
WideRead(w) ==
    IF w.copied = w.size THEN 0
    ELSE IF w.size.hi > w.copied.hi THEN NADEKO_BUFFER_SIZE
    ELSE w.size.lo - w.copied.lo

(* One turn of the loop of nadekoFillBlobFromArchive (the first one after  *)
(* sqlite3_blob_open, which fails when there is no row).                   *)
FillChunk ==
    /\ wide.phase \in {"stored", "copying"}
    /\ wide' = LET iRead == WideRead(wide) IN
               IF wide.slot < 0 THEN [wide EXCEPT !.phase = "error"]
               ELSE IF iRead = 0 THEN [wide EXCEPT !.phase = "done"]
               ELSE IF ~BlobWriteOk(ZeroBlob(wide.slot), iRead, wide.iOffset)
               THEN [wide EXCEPT !.phase = "error"]
               ELSE [wide EXCEPT !.phase = "copying",
                                 !.iOffset = @ + iRead,
                                 !.copied = IF iRead = NADEKO_BUFFER_SIZE
                                            THEN W(@.hi + 1, @.lo)
                                            ELSE W(@.hi, @.lo + iRead)]
    /\ WideUnchanged

(***************************************************************************)
(* xShadowName.  SQLite calls it with the part of a table name past the    *)
(* last '_'.  A name is a sequence of characters.                          *)
(***************************************************************************)
MaxName == 6     \* longest name given to xShadowName

NameChars == {"s", "S", "t", "o", "r", "e", "x"}

(* The byte of a character, and of the end of a string. *)
Byte(ch) ==
    CASE ch = "S" -> 83 [] ch = "e" -> 101 [] ch = "o" -> 111 [] ch = "r" -> 114
      [] ch = "s" -> 115 [] ch = "t" -> 116 [] ch = "x" -> 120 [] OTHER -> 0

ByteAt(z, i) == IF i <= Len(z) THEN Byte(z[i]) ELSE 0

(* sqlite3UpperToLower[] *)
UpperToLower(b) == IF 65 <= b /\ b <= 90 THEN b + 32 ELSE b

(* sqlite3_stricmp(zLeft, zRight): the difference of the first two bytes   *)
(* that differ after folding upper case, 0 when there is none.             *)
RECURSIVE StrICmpFrom(_, _, _)
StrICmpFrom(zLeft, zRight, i) ==
    LET c == ByteAt(zLeft, i)
        x == ByteAt(zRight, i)
    IN  IF c = x
        THEN IF c = 0 THEN 0 ELSE StrICmpFrom(zLeft, zRight, i + 1)
        ELSE IF UpperToLower(c) - UpperToLower(x) # 0
        THEN UpperToLower(c) - UpperToLower(x)
        ELSE StrICmpFrom(zLeft, zRight, i + 1)

sqlite3_stricmp(zLeft, zRight) == StrICmpFrom(zLeft, zRight, 1)

nadekoShadowName(pName) == sqlite3_stricmp(pName, <<"s", "t", "o", "r", "e">>)

NamesOfLen(n) == [1..n -> NameChars]

ShadowNames == UNION {NamesOfLen(n) : n \in 0..MaxName}

ShadowNew(pName) == [pName |-> pName, called |-> FALSE, rc |-> 0]

(* SQLite calls xShadowName and takes a non-zero result as true. *)
nadekoShadowNameCall ==
    /\ ~shadow.called
    /\ shadow' = [shadow EXCEPT !.called = TRUE, !.rc = nadekoShadowName(shadow.pName)]
    /\ UNCHANGED <<lines, conn, archive, wide, isFilesystem, released, pArchive, srcPos,
                   srcFatal, iKnown, iBegun, store, cur, files, crashed, srcReads, nFaults,
                   nMut, nTxn, inserted, deleted, failed, synced, last>>

(***************************************************************************)
(* Specification                                                           *)
(***************************************************************************)
Entries(k) ==
    {[pathname |-> n, size |-> s, sizeSet |-> TRUE, data |-> <<"src", k>>,
      isDir |-> FALSE] : n \in Names, s \in Sizes}

(* The archives of n entries; entry k carries its own data stream. *)
RECURSIVE ArchivesOfLen(_)
ArchivesOfLen(n) ==
    IF n = 0 THEN {<<>>}
    ELSE {Append(a, e) : a \in ArchivesOfLen(n - 1), e \in Entries(n)}

Archives == UNION {ArchivesOfLen(n) : n \in 0..MaxEntries}

(* nadekoConnect on an archive file, and nadekoOpen for each cursor. *)
Init ==
    /\ archive \in Archives
    /\ isFilesystem = FALSE
    /\ lines = LinesNew
    /\ conn = ConnOpen
    /\ released = 0
    /\ wide = WideNew(W(0, 0), W(0, 0))
    /\ shadow = ShadowNew(<<>>)
    /\ pArchive = 1
    /\ srcPos = 0
    /\ srcFatal = FALSE
    /\ iKnown = 0
    /\ iBegun = 0
    /\ store = <<>>
    /\ cur = [c \in Cursors |-> [iRowid |-> 0, iEof |-> 0, rc |-> "NONE", fresh |-> FALSE,
                            yielded |-> <<>>]]
    /\ crashed = FALSE
    /\ files = [p \in {zFilename, zTempname} |->
                   IF p = zFilename THEN FileOf(archive) ELSE Absent]
    /\ srcReads = 0
    /\ nFaults = 0
    /\ nMut = 0
    /\ nTxn = 0
    /\ inserted = {}
    /\ deleted = {}
    /\ failed = {}
    /\ synced = NotSynced
    /\ last = [op |-> "connect", begun |-> 0, rc |-> "OK"]

(* What a walk of a directory delivers (archive_read_disk): the directory   *)
(* itself first, then its files and sub-directories; entry k carries its   *)
(* own data stream.  A directory has no data.                              *)
(* The walk names the directory it was opened on without its trailing '/'  *)
(* characters (unless the name is "/" itself), and everything below it by  *)
(* that name, a '/', and the path from there.                              *)
RECURSIVE StripTrailingSep(_)
StripTrailingSep(z) ==
    IF Len(z) > 1 /\ z[Len(z)] = "/" THEN StripTrailingSep(SubSeq(z, 1, Len(z) - 1))
    ELSE z

WalkPath(root, rel) ==
    LET top == StripTrailingSep(root)
    IN  IF top # <<>> /\ top[Len(top)] # "/" THEN top \o <<"/">> \o rel ELSE top \o rel

RootDir(root) ==
    [pathname |-> StripTrailingSep(root), size |-> 0, sizeSet |-> TRUE,
     data |-> <<"src", 0>>, isDir |-> TRUE]

SubDir == <<"s">>     \* a directory below the root

(* The paths of the files of the tree, from the root. *)
RelNames == Names \cup {SubDir \o <<"/">> \o n : n \in {<<"b">>}}

DirEntries(root, k) ==
    {[pathname |-> WalkPath(root, n), size |-> s, sizeSet |-> TRUE, data |-> <<"src", k>>,
      isDir |-> FALSE] : n \in RelNames, s \in Sizes}
    \cup {[pathname |-> WalkPath(root, SubDir), size |-> 0, sizeSet |-> TRUE,
            data |-> <<"src", k>>, isDir |-> TRUE]}

RECURSIVE TreesOfLen(_, _)
TreesOfLen(root, n) ==
    IF n = 0 THEN {<<RootDir(root)>>}
    ELSE {Append(a, e) : a \in TreesOfLen(root, n - 1), e \in DirEntries(root, n)}

Trees(root) == UNION {TreesOfLen(root, n) : n \in 0..MaxEntries}

DirRoot == <<"d", "/">>     \* the location of the directory source

(* nadekoConnect on the directory at location root, given in single quotes. *)
ConnDir(root) ==
    ConnectResult([Declared(<<<<"'">> \o root \o <<"'">>>>, TRUE) EXCEPT !.via = "xConnect"],
                  "directory")

(* The table as nadekoConnect and nadekoOpen leave it, whatever the source. *)
Connected ==
    /\ lines = LinesNew
    /\ released = 0
    /\ shadow = ShadowNew(<<>>)
    /\ pArchive = 1
    /\ srcPos = 0
    /\ srcFatal = FALSE
    /\ iKnown = 0
    /\ iBegun = 0
    /\ store = <<>>
    /\ cur = [c \in Cursors |-> [iRowid |-> 0, iEof |-> 0, rc |-> "NONE", fresh |-> FALSE,
                            yielded |-> <<>>]]
    /\ crashed = FALSE
    /\ files = [p \in {zFilename, zTempname} |->
                   IF p = zFilename THEN FileOf(archive) ELSE Absent]
    /\ srcReads = 0
    /\ nFaults = 0
    /\ nMut = 0
    /\ nTxn = 0
    /\ inserted = {}
    /\ deleted = {}
    /\ failed = {}
    /\ synced = NotSynced
    /\ last = [op |-> "connect", begun |-> 0, rc |-> "OK"]

(* nadekoConnect on a directory: nadekoIsDirectory is true and the read    *)
(* handle is a disk reader; files[zFilename] stands for the tree there.    *)
InitDir ==
    /\ conn = ConnDir(DirRoot)
    /\ archive \in Trees(DirRoot)
    /\ isFilesystem = TRUE
    /\ wide = WideNew(W(0, 0), W(0, 0))
    /\ Connected

(* Archives some of whose entries declare no size (archive formats that    *)
(* store the length after the data).                                       *)
UnsizedEntries(k) ==
    {[pathname |-> n, size |-> s, sizeSet |-> FALSE, data |-> <<"src", k>>,
      isDir |-> FALSE] : n \in Names, s \in Sizes}

RECURSIVE UnsizedArchivesOfLen(_)
UnsizedArchivesOfLen(n) ==
    IF n = 0 THEN {<<>>}
    ELSE {Append(a, e) : a \in UnsizedArchivesOfLen(n - 1),
                         e \in Entries(n) \cup UnsizedEntries(n)}

UnsizedArchives == UNION {UnsizedArchivesOfLen(n) : n \in 0..MaxEntries}

InitUnsized ==
    /\ conn = ConnOpen
    /\ archive \in UnsizedArchives
    /\ isFilesystem = FALSE
    /\ wide = WideNew(W(0, 0), W(0, 0))
    /\ Connected

(* Every method, with I/O faults. *)
Next ==
    \/ \E c \in Cursors : nadekoFilter(c)
    \/ \E c \in Cursors : nadekoNext(c)
    \/ \E c \in Cursors : nadekoFilterFault(c)
    \/ \E c \in Cursors : nadekoNextFault(c)
    \/ \E r \in 1..(MaxEntries + MaxMut) : nadekoUpdateDelete(r)
    \/ \E r \in 0..(MaxEntries + MaxMut), n \in UserNames, p \in UserPayloads :
          nadekoUpdateInsert(r, n, p)
    \/ nadekoBegin
    \/ nadekoSync
    \/ nadekoSyncFault
    \/ nadekoCommit
    \/ nadekoCommitFault
    \/ nadekoRollback

Spec == Init /\ [][Next]_vars

(* Scans only, by two cursors, on a source that reads without error. *)
NextScan ==
    \/ \E c \in Cursors : nadekoFilter(c)
    \/ \E c \in Cursors : nadekoNext(c)

SpecScan == Init /\ [][NextScan]_vars

(* One cursor and the transaction methods, with write-back faults. *)
NextTxn ==
    \/ nadekoFilter("c1")
    \/ nadekoNext("c1")
    \/ nadekoBegin
    \/ nadekoSync
    \/ nadekoSyncFault
    \/ nadekoCommit
    \/ nadekoCommitFault
    \/ nadekoRollback

SpecTxn == Init /\ [][NextTxn]_vars

(* Scans, mutations and a write-back, without I/O faults. *)
NextMut ==
    \/ nadekoFilter("c1")
    \/ nadekoNext("c1")
    \/ \E r \in 1..(MaxEntries + MaxMut) : nadekoUpdateDelete(r)
    \/ \E r \in 0..(MaxEntries + MaxMut), n \in UserNames, p \in UserPayloads :
          nadekoUpdateInsert(r, n, p)
    \/ nadekoBegin
    \/ nadekoSync
    \/ nadekoCommit
    \/ nadekoRollback

SpecMut == Init /\ [][NextMut]_vars

(* Scans, mutations and exports in which a statement of the row store may  *)
(* fail; the file system and the source do not fail.                       *)
NextStore ==
    \/ nadekoFilter("c1")
    \/ nadekoNext("c1")
    \/ \E r \in 1..(MaxEntries + MaxMut) : nadekoUpdateDelete(r)
    \/ \E r \in 0..(MaxEntries + MaxMut), n \in UserNames, p \in UserPayloads :
          nadekoUpdateInsert(r, n, p)
    \/ \E r \in 1..(MaxEntries + MaxMut) : nadekoUpdateDeleteStoreFault(r)
    \/ \E r \in 0..(MaxEntries + MaxMut), n \in UserNames, p \in UserPayloads :
          nadekoUpdateInsertStoreFault(r, n, p)
    \/ nadekoBegin
    \/ nadekoSync
    \/ nadekoSyncStoreFault

SpecStore == Init /\ [][NextStore]_vars

(* The same methods on either kind of source: an archive or a directory. *)
NextSrc ==
    \/ nadekoFilter("c1")
    \/ nadekoNext("c1")
    \/ \E r \in 1..(MaxEntries + MaxMut) : nadekoUpdateDelete(r)
    \/ \E r \in 0..(MaxEntries + MaxMut), n \in UserNames, p \in UserPayloads :
          nadekoUpdateInsert(r, n, p)
    \/ nadekoBegin
    \/ nadekoSync
    \/ nadekoCommit
    \/ nadekoRollback

SpecSrc == (Init \/ InitDir) /\ [][NextSrc]_vars

(* Scans, inserts of any value under a name between the source's names,    *)
(* and exports.                                                            *)
NextExport ==
    \/ nadekoFilter("c1")
    \/ nadekoNext("c1")
    \/ \E p \in UserPayloads \cup {NullValue} : nadekoUpdateInsert(0, <<"a", "m">>, p)
    \/ nadekoBegin
    \/ nadekoSync

SpecExport == Init /\ [][NextExport]_vars

(* Scans, mutations and a write-back whose writes or rename may fail. *)
NextWb ==
    \/ nadekoFilter("c1")
    \/ nadekoNext("c1")
    \/ \E r \in 1..(MaxEntries + MaxMut) : nadekoUpdateDelete(r)
    \/ \E r \in 0..(MaxEntries + MaxMut), n \in UserNames, p \in UserPayloads :
          nadekoUpdateInsert(r, n, p)
    \/ nadekoBegin
    \/ nadekoSync
    \/ nadekoSyncFault
    \/ nadekoCommit
    \/ nadekoCommitFault
    \/ nadekoRollback

SpecWb == Init /\ [][NextWb]_vars

(* Scans by two cursors and mutations. *)
NextScanMut ==
    \/ \E c \in Cursors : nadekoFilter(c)
    \/ \E c \in Cursors : nadekoNext(c)
    \/ \E r \in 1..(MaxEntries + MaxMut) : nadekoUpdateDelete(r)
    \/ \E r \in 0..(MaxEntries + MaxMut), n \in UserNames, p \in UserPayloads :
          nadekoUpdateInsert(r, n, p)

SpecScanMut == Init /\ [][NextScanMut]_vars

(* Scans by one cursor on a source that reads without error. *)
NextScan1 ==
    \/ nadekoFilter("c1")
    \/ nadekoNext("c1")

SpecScan1 == Init /\ [][NextScan1]_vars

(* The same scans over archives with entries that declare no size. *)
SpecUnsized == InitUnsized /\ [][NextScan1]_vars

(* Scans by two cursors on a source whose reads may fail, and a write-back. *)
NextFault ==
    \/ \E c \in Cursors : nadekoFilter(c)
    \/ \E c \in Cursors : nadekoNext(c)
    \/ \E c \in Cursors : nadekoFilterFault(c)
    \/ \E c \in Cursors : nadekoNextFault(c)
    \/ nadekoBegin
    \/ nadekoSync

SpecFault == Init /\ [][NextFault]_vars

(* Scans by one cursor of a directory source, for several spellings of its *)
(* location; no two entries of a directory have the same path.             *)
Roots == {<<"d">>, <<"d", "/">>, <<"d", "/", "/">>}

InitWalk ==
    /\ \E root \in Roots : conn = ConnDir(root) /\ archive \in Trees(root)
    /\ \A i, j \in 1..Len(archive) : i # j => archive[i].pathname # archive[j].pathname
    /\ isFilesystem = TRUE
    /\ wide = WideNew(W(0, 0), W(0, 0))
    /\ Connected

SpecWalk == InitWalk /\ [][NextScan1]_vars

(* Scans of lines(data) on one cursor, for every value of up to MaxData    *)
(* bytes; the nadeko table is not touched.                                 *)
InitLines == Init /\ archive = <<>>

NextLines ==
    \/ \E type \in {"TEXT", "BLOB"}, d \in Data, cr \in BOOLEAN : linesFilter(type, d, cr)
    \/ \E cr \in BOOLEAN : linesFilter("NULL", <<>>, cr)
    \/ \E cr \in BOOLEAN : linesNext(cr)

SpecLines == InitLines /\ [][NextLines]_vars

(* Scans by two cursors and mutations, when a step of the select statement *)
(* may fail.                                                               *)
NextLookup ==
    \/ \E c \in Cursors : nadekoFilter(c)
    \/ \E c \in Cursors : nadekoNext(c)
    \/ \E c \in Cursors : nadekoFilterLookupFault(c)
    \/ \E c \in Cursors : nadekoNextLookupFault(c)
    \/ \E r \in 1..(MaxEntries + MaxMut) : nadekoUpdateDelete(r)
    \/ \E r \in 0..(MaxEntries + MaxMut), n \in UserNames, p \in UserPayloads :
          nadekoUpdateInsert(r, n, p)

SpecLookup == Init /\ [][NextLookup]_vars

(* One scan by each cursor, without mutations: xFilter once, then xNext as *)
(* long as xEof is false.  The statement that scans keeps calling xNext    *)
(* until xEof is true, hence the weak fairness of the xNext steps.  A scan *)
(* is followed up to position MaxEntries + 1.                              *)
ScanOnce(c) ==
    /\ cur[c].rc = "NONE"
    /\ nadekoFilter(c)

ScanStep(c) ==
    /\ cur[c].iRowid <= MaxEntries
    /\ nadekoNext(c)

NextLive ==
    \/ \E c \in Cursors : ScanOnce(c)
    \/ \E c \in Cursors : ScanStep(c)

SpecLive == Init /\ [][NextLive]_vars /\ \A c \in Cursors : WF_vars(ScanStep(c))

(* One cursor and the transaction methods, when a write of the export or a *)
(* step of its select statement may fail.                                  *)
NextPublish ==
    \/ nadekoFilter("c1")
    \/ nadekoNext("c1")
    \/ nadekoBegin
    \/ nadekoSync
    \/ nadekoSyncFault
    \/ nadekoSyncStoreFault
    \/ nadekoCommit
    \/ nadekoRollback

SpecPublish == Init /\ [][NextPublish]_vars

(* Two scans one after the other, without mutations and without read       *)
(* errors: cursor c1 scans (and may be rewound) until a scan of it has run *)
(* to its end, then cursor c2 scans.                                       *)
FirstScan ==
    /\ ~(cur["c1"].rc = "OK" /\ cur["c1"].iEof = 1)
    /\ nadekoFilter("c1")

SecondScan ==
    /\ cur["c1"].rc = "OK" /\ cur["c1"].iEof = 1
    /\ nadekoFilter("c2")

NextRepeat ==
    \/ FirstScan
    \/ SecondScan
    \/ \E c \in Cursors : nadekoNext(c)

SpecRepeat == Init /\ [][NextRepeat]_vars

(* Scans by two cursors on a source whose reads may fail, until the table  *)
(* is disconnected.                                                        *)
NextHandle ==
    \/ \E c \in Cursors : nadekoFilter(c)
    \/ \E c \in Cursors : nadekoNext(c)
    \/ \E c \in Cursors : nadekoFilterFault(c)
    \/ \E c \in Cursors : nadekoNextFault(c)
    \/ nadekoDisconnect

SpecHandle == Init /\ [][NextHandle]_vars

(* The ingestion of one entry, for declared sizes and values of iKnown     *)
(* around 2^31 and 2^32; the table itself is not touched.                  *)
WideSizes ==
    {W(0, 0), W(0, 5), W(1, 4464), W(2, 0), W(IntHalf - 1, Half - 1), W(IntHalf, 0),
     W(Half, 0), W(Half, 5), W(Half + 1, 4464)}

WideKnowns ==
    {W(0, 0), W(0, 1), W(IntHalf - 1, Half - 2), W(IntHalf - 1, Half - 1), W(Half - 1, Half - 1)}

InitWide ==
    /\ archive = <<>>
    /\ isFilesystem = FALSE
    /\ conn = ConnOpen
    /\ Connected
    /\ \E size \in WideSizes, known \in WideKnowns : wide = WideNew(size, known)

NextWide ==
    \/ IngestBind
    \/ IngestStep
    \/ FillChunk

SpecWide == InitWide /\ [][NextWide]_vars

(* Calls of xShadowName for every name of up to MaxName characters. *)
InitShadow ==
    /\ archive = <<>>
    /\ isFilesystem = FALSE
    /\ conn = ConnOpen
    /\ wide = WideNew(W(0, 0), W(0, 0))
    /\ lines = LinesNew
    /\ released = 0
    /\ shadow \in {ShadowNew(z) : z \in ShadowNames}
    /\ pArchive = 1
    /\ srcPos = 0
    /\ srcFatal = FALSE
    /\ iKnown = 0
    /\ iBegun = 0
    /\ store = <<>>
    /\ cur = [c \in Cursors |-> [iRowid |-> 0, iEof |-> 0, rc |-> "NONE", fresh |-> FALSE,
                            yielded |-> <<>>]]
    /\ crashed = FALSE
    /\ files = [p \in {zFilename, zTempname} |->
                   IF p = zFilename THEN FileOf(archive) ELSE Absent]
    /\ srcReads = 0
    /\ nFaults = 0
    /\ nMut = 0
    /\ nTxn = 0
    /\ inserted = {}
    /\ deleted = {}
    /\ failed = {}
    /\ synced = NotSynced
    /\ last = [op |-> "connect", begun |-> 0, rc |-> "OK"]

NextShadow == nadekoShadowNameCall

SpecShadow == InitShadow /\ [][NextShadow]_vars

(* Creation, opening and closing of the table, for every argument list. *)
InitConnect ==
    /\ lines = LinesNew
    /\ conn \in {Declared(args, had) :
                    args \in UNION {ArgLists(n) : n \in 0..MaxArgs}, had \in BOOLEAN}
    /\ archive = <<>>
    /\ isFilesystem = FALSE
    /\ released = 0
    /\ wide = WideNew(W(0, 0), W(0, 0))
    /\ shadow = ShadowNew(<<>>)
    /\ pArchive = 0
    /\ srcPos = 0
    /\ srcFatal = FALSE
    /\ iKnown = 0
    /\ iBegun = 0
    /\ store = <<>>
    /\ cur = [c \in Cursors |-> [iRowid |-> 0, iEof |-> 0, rc |-> "NONE", fresh |-> FALSE,
                            yielded |-> <<>>]]
    /\ crashed = FALSE
    /\ files = [p \in {zFilename, zTempname} |-> Absent]
    /\ srcReads = 0
    /\ nFaults = 0
    /\ nMut = 0
    /\ nTxn = 0
    /\ inserted = {}
    /\ deleted = {}
    /\ failed = {}
    /\ synced = NotSynced
    /\ last = [op |-> "declare", begun |-> 0, rc |-> "OK"]

NextConnect ==
    \/ \E env \in ConnectEnvs : nadekoCreate(env)
    \/ \E env \in ConnectEnvs : nadekoConnect(env)
    \/ nadekoDisconnect
    \/ nadekoDestroy

SpecConnect == InitConnect /\ [][NextConnect]_vars

(***************************************************************************)
(* Properties                                                              *)
(***************************************************************************)
(* The rows a complete scan of the source has to yield. *)
ExpectedRows ==
    [k \in 1..Len(archive) |->
        [rowid |-> k, filename |-> archive[k].pathname,
         contents |-> Whole(archive[k].data, archive[k].size)]]

(* The cursor's scan has ended: the last call returned SQLITE_OK and xEof  *)
(* is true.                                                                *)
Exhausted(c) == cur[c].rc = "OK" /\ cur[c].iEof = 1

(* C1: a scan that began on a fresh table and ran to exhaustion, the       *)
(* source reading without error, has yielded one row per entry of the      *)
(* archive: the k-th at rowid k with the name and the payload of the k-th  *)
(* entry; and iKnown is the number of entries.                             *)
C1_FreshScanYieldsArchive ==
    (cur["c1"].fresh /\ Exhausted("c1"))
        => (cur["c1"].yielded = ExpectedRows /\ iKnown = Len(archive))

C1_Witness ==
    /\ cur["c1"].fresh /\ Exhausted("c1")
    /\ Len(archive) = 2
    /\ archive[1].pathname = archive[2].pathname
    /\ archive[1].size > NADEKO_BUFFER_SIZE

(* A scan has reached the end of the source: the read handle is released   *)
(* and a cursor reports end-of-stream.                                     *)
FullScanDone == pArchive = 0 /\ \E c \in Cursors : Exhausted(c)

RowsOfEntry(k) ==
    {r \in Rowids(store) :
        /\ store[r].contents = Whole(archive[k].data, archive[k].size)
        /\ store[r].filename = archive[k].pathname}

(* C7: for any interleaving of whole xFilter/xNext calls of the cursors,   *)
(* every entry pulled from the source is held by exactly one row of the    *)
(* store, and every cursor whose scan has ended has yielded the full row   *)
(* sequence.                                                               *)
C7_EachEntryOnceAllCursorsFull ==
    /\ \A k \in 1..srcPos : Cardinality(RowsOfEntry(k)) = 1
    /\ \A c \in Cursors : Exhausted(c) => cur[c].yielded = ExpectedRows

(* The (name, payload) pairs of an archive file. *)
PairsOf(file) ==
    {[pathname |-> file.entries[i].pathname,
      size |-> file.entries[i].size,
      len |-> file.entries[i].len,
      segs |-> file.entries[i].segs] : i \in 1..Len(file.entries)}

(* The last call was an xCommit of a begun transaction that renamed the    *)
(* archive written by a successful xSync of that transaction.              *)
Committed ==
    last.op = "commit" /\ last.begun = 1 /\ last.rc = "OK" /\ synced.rc = "OK"

(* C2: round trip.  After the source has been ingested to its end and a    *)
(* transaction without mutations is committed (begin, sync, commit), the   *)
(* archive at the original path holds the same set of (name, payload)      *)
(* pairs as the original archive.                                          *)
C2_RoundTrip ==
    (Committed /\ synced.full) => PairsOf(files[zFilename]) = PairsOf(FileOf(archive))

(* The names of the entries of the source. *)
SourceNames == {archive[k].pathname : k \in 1..Len(archive)}

(* The archive entry xSync writes for a row with a complete payload. *)
EntryOfRow(x) ==
    [pathname |-> x.filename, size |-> x.contents.size, len |-> x.contents.size,
     segs |-> x.contents.segs]

(* C3: a row inserted through xUpdate under a name that is no source entry *)
(* survives whatever scans run afterwards: it stays in the row store with  *)
(* its name and bytes, and a successful xSync writes it to the archive.    *)
C3_InsertedRowSurvives ==
    \A x \in inserted :
        x.filename \notin SourceNames =>
            /\ x.rowid \in Rowids(store)
            /\ store[x.rowid] = [filename |-> x.filename, contents |-> x.contents]
            /\ (last.op = "sync" /\ last.begun = 1 /\ last.rc = "OK")
                   => EntryOfRow(x) \in PairsOf(files[zTempname])

(* The cursor record cu is on a row: the call returned SQLITE_OK and xEof  *)
(* is false.                                                               *)
OnRow(cu) == cu.rc = "OK" /\ cu.iEof = 0

(* C4: after xUpdate deleted a materialized row N (N <= iKnown), no later  *)
(* xFilter/xNext of any cursor stops on rowid N, and the store never holds *)
(* a row N again, whatever ingestion later scans trigger (until xUpdate    *)
(* itself inserts a row with that rowid).                                  *)
C4_DeletedRowNeverYielded ==
    [][/\ \A c \in Cursors :
            cur'[c] # cur[c] => ~(OnRow(cur'[c]) /\ cur'[c].iRowid \in deleted')
       /\ \A n \in deleted' : n \notin Rowids(store')]_vars

C4_Witness ==
    /\ deleted = {1}
    /\ iKnown = 2
    /\ pArchive = 0
    /\ \E c \in Cursors : Exhausted(c) /\ cur[c].iRowid = 1 /\ last.op = "filter"

(* A payload whose bytes have all been written, in order, from one stream. *)
Complete(b) ==
    \/ b.size = 0 /\ b.segs = <<>>
    \/ /\ Len(b.segs) = 1
       /\ b.segs[1].off = 0 /\ b.segs[1].srcOff = 0 /\ b.segs[1].len = b.size

(* C5: a row whose payload copy failed mid-way is never yielded by a scan  *)
(* and never written into an archive by xSync: every row a cursor has      *)
(* yielded and every entry of the archive at zTempname has a complete      *)
(* payload.                                                                *)
C5_PartialRowsNeverVisible ==
    /\ \A c \in Cursors : \A i \in 1..Len(cur[c].yielded) :
            Complete(cur[c].yielded[i].contents)
    /\ \A x \in PairsOf(files[zTempname]) :
            x.len = x.size /\ Complete([size |-> x.size, segs |-> x.segs])

(* C8: the archive at the original path changes only in an xCommit of a    *)
(* begun transaction whose rename succeeds: no scan, mutation, xBegin,     *)
(* xSync (successful or failed), xRollback or failed xCommit changes it.   *)
C8_OriginalUntouched ==
    [][files'[zFilename] # files[zFilename]
          => (last'.op = "commit" /\ last'.begun = 1 /\ last'.rc = "OK")]_vars

C8_Witness ==
    /\ last.op = "sync" /\ last.begun = 1 /\ last.rc = "ERROR"
    /\ nMut > 0
    /\ iKnown > 0
    /\ \E i \in 1..Len(files[zTempname].entries) :
          files[zTempname].entries[i].len < files[zTempname].entries[i].size
    /\ files[zFilename] = FileOf(archive)

(* C9: an xCommit of a begun transaction whose rename fails returns an     *)
(* error, leaves no file at zTempname, leaves the original archive as it   *)
(* was and clears iBegun; the rename fails whenever zTempname is absent.   *)
C9_FailedCommit ==
    [][(last'.op = "commit" /\ last'.begun = 1)
          => /\ ~files[zTempname].exists => last'.rc = "ERROR"
             /\ last'.rc = "ERROR"
                   => /\ files'[zTempname] = Absent
                      /\ files'[zFilename] = files[zFilename]
                      /\ iBegun' = 0]_vars

C9_Witness ==
    /\ last.op = "commit" /\ last.begun = 1 /\ last.rc = "ERROR"
    /\ synced.rc = "OK"
    /\ nFaults = 1
    /\ iBegun = 0

(* C10: an xRollback of a begun transaction leaves no file at zTempname    *)
(* and clears iBegun, and changes neither the original archive, nor the    *)
(* row store (mutations of the transaction included), nor iKnown, nor the  *)
(* read handle of the source.                                              *)
C10_RollbackFrame ==
    [][(last'.op = "rollback" /\ last'.begun = 1)
          => /\ files'[zTempname] = Absent
             /\ iBegun' = 0
             /\ files'[zFilename] = files[zFilename]
             /\ UNCHANGED <<store, iKnown, pArchive, srcPos, srcFatal>>]_vars

C10_Witness ==
    /\ last.op = "rollback" /\ last.begun = 1
    /\ synced.rc = "OK"
    /\ inserted # {}
    /\ iKnown > 0
    /\ files[zTempname] = Absent

(* C11: xBegin on a table whose source is a directory returns an error and *)
(* changes nothing (iBegun stays 0; iKnown, the row store, the read handle *)
(* and the files are as before); on an archive it returns SQLITE_OK, sets  *)
(* iBegun and changes nothing else: no file is created.                    *)
C11_BeginRefusesDirectory ==
    [][last'.op = "begin"
          => /\ UNCHANGED <<iKnown, store, files, pArchive, srcPos, srcFatal, cur>>
             /\ IF isFilesystem
                THEN last'.rc = "ERROR" /\ iBegun = 0 /\ iBegun' = 0
                ELSE last'.rc = "OK" /\ iBegun' = 1]_vars

C11_Witness ==
    /\ last.op = "begin" /\ last.rc = "ERROR"
    /\ isFilesystem
    /\ iKnown > 0
    /\ srcPos > iKnown + 1
    /\ Rowids(store) # {}

(* C12: on a table whose source is a directory no xBegin, xUpdate, xSync,   *)
(* xCommit or xRollback call changes the row store, and no call writes a   *)
(* file: neither at zTempname nor at zFilename.                            *)
C12_DirectoryReadOnly ==
    [][isFilesystem
          => /\ last'.op \in {"begin", "insert", "delete", "sync", "commit", "rollback"}
                    => store' = store
             /\ files' = files]_vars

(* C13: while the table is idle (iBegun = 0) there is no file at zTempname, *)
(* whatever xBegin, xSync, xCommit and xRollback calls came before,        *)
(* failed writes and a failed rename included.                             *)
C13_IdleNoTempFile == iBegun = 0 => files[zTempname] = Absent

C13_Witness ==
    /\ iBegun = 0
    /\ last.op \in {"commit", "rollback"} /\ last.begun = 1 /\ last.rc = "OK"
    /\ synced.rc = "ERROR"
    /\ iKnown > 0

(* C14: after xSync returned SQLITE_OK in a begun transaction the archive  *)
(* at zTempname has one entry per row of the store, and for every row that *)
(* holds a byte sequence the entry with its name, its length as declared   *)
(* size, and its bytes complete and in order.                              *)
C14_ExportMatchesStore ==
    (last.op = "sync" /\ last.begun = 1 /\ last.rc = "OK")
        => /\ Len(files[zTempname].entries) = Cardinality(Rowids(store))
           /\ \A r \in Rowids(store) :
                 IsBlob(store[r].contents)
                     => EntryOfRow(store[r]) \in PairsOf(files[zTempname])

(* C15: when an xFilter/xNext call leaves a cursor at end-of-stream, the    *)
(* source has been read to its end (the read handle is released) and the   *)
(* store holds no row with a rowid above the position the cursor stopped   *)
(* at; so the rows above a deleted row are still reached.                  *)
C15_EofOnlyAtEnd ==
    [][\A c \in Cursors :
          (cur'[c] # cur[c] /\ cur'[c].rc = "OK" /\ cur'[c].iEof = 1)
              => /\ pArchive' = 0
                 /\ \A r \in Rowids(store') : r < cur'[c].iRowid]_vars

(* C16: when nadekoNext pulls an entry whose header declares no size, the  *)
(* call returns an error, the store gains no row and iKnown stays.         *)
C16_UnsizedEntryRejected ==
    [][(srcPos' = srcPos + 1 /\ ~archive[srcPos'].sizeSet)
          => (last'.rc = "ERROR" /\ store' = store /\ iKnown' = iKnown)]_vars

(* C17: xUpdate's insert never removes a row: every rowid of the store is  *)
(* still there afterwards, and at most the row at the rowid written has    *)
(* changed; so a row that has the name of the new row and another rowid    *)
(* stays beside it.                                                        *)
C17_DuplicateNameKeepsBoth ==
    [][last'.op = "insert"
          => /\ Rowids(store) \subseteq Rowids(store')
             /\ Cardinality({r \in Rowids(store) : store'[r] # store[r]}) <= 1]_vars

(* C18: an xUpdate insert whose statement completed returns SQLITE_OK and  *)
(* reports in *pRowid the rowid of the row it stored.                      *)
C18_InsertReportsRowid ==
    [][(last'.op = "insert" /\ store' # store)
          => /\ last'.rc = "OK"
             /\ \E x \in inserted' :
                   /\ x.rowid = last'.rowid
                   /\ x.rowid \in Rowids(store')
                   /\ store'[x.rowid] = [filename |-> x.filename, contents |-> x.contents]]_vars

(* C19: a call in which a statement of the row store failed returns an     *)
(* error.  (In SpecStore every fault counted by nFaults is a failed step   *)
(* of the delete or insert of xUpdate or of the row iteration of xSync.)   *)
C19_StoreFailurePropagated ==
    [][nFaults' > nFaults => last'.rc = "ERROR"]_vars

(* C20: once an xSync of the transaction has exported the store, a later   *)
(* xSync of the same transaction leaves the file at zTempname as it is,    *)
(* and xCommit publishes that file: the archive at zFilename after the     *)
(* commit is the first export, whatever was done to the store since.       *)
C20_FirstSyncDurable ==
    [][/\ (last'.op = "sync" /\ last'.begun = 1 /\ synced.rc = "OK")
            => files'[zTempname] = files[zTempname]
       /\ (last'.op = "commit" /\ last'.begun = 1 /\ last'.rc = "OK")
            => files'[zFilename] = files[zTempname]]_vars

(***************************************************************************)
(* C21: the module argument is accepted iff it is at least two characters  *)
(* long, starts with a single or a double quote and ends with the same     *)
(* character; the source location is then the argument without its first  *)
(* and last character; in every other case, and whenever the number of     *)
(* module arguments is not one, xCreate / xConnect return an error.        *)
(***************************************************************************)
C21_QuotedArgument ==
    conn.phase \in {"open", "failed"} =>
        LET n == Len(conn.argv)
            z == conn.argv[1]
            quoted == /\ n = 1
                      /\ Len(z) >= 2
                      /\ z[1] \in {"'", "\""}
                      /\ z[Len(z)] = z[1]
        IN  IF quoted
            THEN /\ conn.rc # "NOMEM" => conn.location = SubSeq(z, 2, Len(z) - 1)
                 /\ conn.phase = "open" => conn.zFilename = SubSeq(z, 2, Len(z) - 1)
                 /\ conn.zErr \notin {"wrong number of arguments to nadeko()",
                                       "first argument to nadeko() not a string"}
            ELSE /\ conn.phase = "failed"
                 /\ conn.rc = "ERROR"
                 /\ conn.location = NullString
                 /\ conn.zErr = IF n = 1 THEN "first argument to nadeko() not a string"
                                 ELSE "wrong number of arguments to nadeko()"

C21_Witness ==
    /\ conn.phase = "open"
    /\ conn.argv = <<<<"\"", "'", "\"">>>>
    /\ conn.zFilename = <<"'">>

C23_DirectoryRows ==
    LET walked == SelectSeq(archive, LAMBDA e : ~e.isDir)
    IN  /\ Rowids(store) = 1..iKnown
        /\ iKnown <= Len(walked)
        /\ pArchive = 0 => iKnown = Len(walked)
        /\ \A k \in 1..iKnown :
               \E rel \in RelNames :
                  /\ walked[k].pathname = WalkPath(conn.zFilename, rel)
                  /\ store[k].filename = rel

(* The segments of d between its line feeds: k line feeds give k + 1       *)
(* segments.                                                               *)
RECURSIVE SplitLF(_)
SplitLF(d) ==
    IF \A i \in 1..Len(d) : d[i] # "LF" THEN <<d>>
    ELSE LET i == CHOOSE i \in 1..Len(d) : d[i] = "LF" /\ \A j \in 1..(i - 1) : d[j] # "LF"
         IN  <<SubSeq(d, 1, i - 1)>> \o SplitLF(SubSeq(d, i + 1, Len(d)))

(* The lines of d: each segment that a line feed ends, without the         *)
(* carriage return before that line feed, and the rest after the last line *)
(* feed.                                                                   *)
LinesOf(d) ==
    LET segs == SplitLF(d)
    IN  [k \in 1..Len(segs) |->
            IF k < Len(segs) /\ segs[k] # <<>> /\ segs[k][Len(segs[k])] = "CR"
            THEN SubSeq(segs[k], 1, Len(segs[k]) - 1)
            ELSE segs[k]]

(***************************************************************************)
(* C24: a scan of lines(data) over a text or blob value yields the         *)
(* segments of data between its UNIX (LF) and DOS (CR LF) newlines, in     *)
(* order, without the newline bytes (the CR of a DOS newline included),    *)
(* and an empty segment between two newlines as an empty line.  At every   *)
(* moment the lines yielded so far are the first lines of data, and at the *)
(* end of the scan they are all of them (an empty rest after the last      *)
(* newline may be left out).                                               *)
(***************************************************************************)
C24_LinesSplit ==
    lines.type \in {"TEXT", "BLOB"} =>
        LET want == LinesOf(lines.data)
            n == Len(lines.yielded)
        IN  /\ ~lines.crashed
            /\ n <= Len(want)
            /\ lines.yielded = SubSeq(want, 1, n)
            /\ lines.phase = "eof" =>
                   \/ n = Len(want)
                   \/ n = Len(want) - 1 /\ want[Len(want)] = <<>>

(***************************************************************************)
(* C25: write-back loses no source entry.  After xBegin, xSync and an      *)
(* xCommit that succeeds, the archive at the original path has an entry    *)
(* for every entry of the original archive that no xUpdate deleted or      *)
(* replaced, however many entries had been ingested when xSync ran.        *)
(***************************************************************************)
C25_WriteBackKeepsSource ==
    (Committed /\ nMut = 0) =>
        SourceNames \subseteq {e.pathname : e \in PairsOf(files[zFilename])}

(***************************************************************************)
(* C26: iKnown goes up only after the payload of an entry has been copied  *)
(* completely and without error: a step that changes iKnown adds one,      *)
(* returns SQLITE_OK and leaves row iKnown' with the name and all the      *)
(* bytes of the entry just read; an xFilter / xNext in which the header    *)
(* read or the payload copy fails returns an error and leaves iKnown.      *)
(***************************************************************************)
C26_KnownOnlyAfterCompleteCopy ==
    [][/\ iKnown' # iKnown =>
             /\ iKnown' = iKnown + 1
             /\ last'.op \in {"filter", "next"}
             /\ last'.rc = "OK"
             /\ srcPos' > srcPos
             /\ iKnown' \in Rowids(store')
             /\ store'[iKnown'] =
                   [filename |-> archive[srcPos'].pathname,
                    contents |-> Whole(archive[srcPos'].data, archive[srcPos'].size)]
       /\ (nFaults' > nFaults /\ last'.op \in {"filter", "next"}) =>
             /\ last'.rc = "ERROR"
             /\ iKnown' = iKnown]_vars

C26_Witness ==
    /\ last.op = "next"
    /\ last.rc = "ERROR"
    /\ nFaults = 1
    /\ iKnown = 1
    /\ failed = {2}
    /\ 2 \in Rowids(store)
    /\ ~Complete(store[2].contents)

(***************************************************************************)
(* C27: after every xFilter or xNext that returns SQLITE_OK the cursor is  *)
(* either at end-of-stream (xEof true) or on a rowid that has a row in the *)
(* store (xEof false): xEof is true iff the lookup of the row at the       *)
(* cursor's position found none; and xFilter leaves the cursor at rowid 1. *)
(***************************************************************************)
C27_ExhaustedOrPositioned ==
    [][\A c \in Cursors :
          (cur'[c] # cur[c] /\ cur'[c].rc = "OK") =>
              /\ (cur'[c].iEof = 1) <=> (cur'[c].iRowid \notin Rowids(store'))
              /\ last'.op = "filter" => cur'[c].iRowid = 1]_vars

(***************************************************************************)
(* C28: the end of the source is final.  The xFilter / xNext that reads    *)
(* the end of the source (a read that returns SQLITE_OK without a new      *)
(* entry) releases the read handle, and from then on no scan, mutation or  *)
(* transaction method opens it again or changes iKnown.                    *)
(***************************************************************************)
C28_ExhaustionPermanent ==
    [][/\ (srcReads' > srcReads /\ last'.rc = "OK" /\ iKnown' = iKnown) => pArchive' = 0
       /\ pArchive = 0 => (pArchive' = 0 /\ iKnown' = iKnown /\ srcPos' = srcPos)]_vars

C28_Witness ==
    /\ pArchive = 0
    /\ iKnown = 2
    /\ nMut = 1
    /\ last.op = "commit"
    /\ last.begun = 1
    /\ last.rc = "OK"
    /\ cur["c1"].iRowid > iKnown

(***************************************************************************)
(* C29: xSync, xCommit and xRollback do nothing unless a transaction has   *)
(* begun: called with iBegun = 0 they return SQLITE_OK and change neither  *)
(* a file nor the state of the table; and no step taken with iBegun = 0,   *)
(* other than an xBegin, creates the temporary file, changes the original  *)
(* archive or begins a transaction.                                        *)
(***************************************************************************)
C29_IdleNoOps ==
    [][iBegun = 0 =>
          /\ last'.op \in {"sync", "commit", "rollback"} =>
                 /\ last'.rc = "OK"
                 /\ UNCHANGED <<conn, iBegun, files, store, iKnown, pArchive, srcPos,
                                srcFatal, cur, synced, crashed>>
          /\ last'.op # "begin" => (files' = files /\ iBegun' = 0)]_vars

C29_Witness ==
    /\ iBegun = 0
    /\ last.op = "commit"
    /\ last.begun = 0
    /\ last.rc = "OK"
    /\ ~isFilesystem
    /\ nTxn = 0
    /\ nMut > 0
    /\ iKnown > 0
    /\ files[zTempname] = Absent
    /\ files[zFilename] = FileOf(archive)

(***************************************************************************)
(* C30: every scan is finite.  On a finite source and a finite store,      *)
(* without mutations, a cursor that xFilter or xNext has put on a row      *)
(* reaches end-of-stream (xEof true) when xNext keeps being called.        *)
(***************************************************************************)
C30_ScanFinite ==
    \A c \in Cursors : (cur[c].rc = "OK" /\ cur[c].iEof = 0) ~> (cur[c].iEof = 1)

C30_Witness ==
    /\ \A c \in Cursors : cur[c].rc = "OK" /\ cur[c].iEof = 1 /\ Len(cur[c].yielded) = 2
    /\ cur["c1"].iRowid = 3
    /\ cur["c2"].iRowid = 3
    /\ last.op = "next"
    /\ iKnown = 2
    /\ pArchive = 0

(***************************************************************************)
(* C31: commit only publishes a complete export.  An xSync of a begun      *)
(* transaction that leaves at zTempname anything but the export of the     *)
(* whole row store returns an error; and an xCommit that replaces the      *)
(* original does so with the temporary file, after the last xSync of the   *)
(* transaction returned SQLITE_OK.                                         *)
(***************************************************************************)
C31_CommitPublishesCompleteExport ==
    [][/\ (last'.op = "sync" /\ iBegun # 0
              /\ files'[zTempname] # File(SyncResult(NoSyncFault).out))
          => last'.rc # "OK"
       /\ (last'.op = "commit" /\ files'[zFilename] # files[zFilename])
          => (synced.rc = "OK" /\ files'[zFilename] = files[zTempname])]_vars

(***************************************************************************)
(* C32: no source entry is skipped or misplaced, also when an ingestion    *)
(* failed mid-copy and scanning went on afterwards: every row of the store *)
(* carries the name of the source entry of its rowid, and every row up to  *)
(* iKnown carries that entry's payload.  (No xUpdate takes place.)         *)
(***************************************************************************)
C32_RowKHoldsEntryK ==
    \A r \in Rowids(store) :
        /\ r <= Len(archive)
        /\ store[r].filename = archive[r].pathname
        /\ r <= iKnown => store[r].contents = Whole(archive[r].data, archive[r].size)

(***************************************************************************)
(* C33: whenever xFilter / xNext reads the source, the position of the     *)
(* cursor, which is the row whose payload is filled, is iKnown + 1, the    *)
(* rowid of the row that is inserted; for two cursors and any earlier      *)
(* read errors.                                                            *)
(***************************************************************************)
C33_IngestAtOwnPosition ==
    [][srcReads' > srcReads =>
          /\ \A c \in Cursors : cur'[c] # cur[c] => cur'[c].iRowid = iKnown + 1
          /\ \E c \in Cursors : cur'[c].iRowid = iKnown + 1]_vars

C33_Witness ==
    /\ failed = {1}
    /\ cur["c1"].rc = "ERROR"
    /\ cur["c2"].rc = "OK" /\ cur["c2"].iRowid = 1 /\ cur["c2"].iEof = 0
    /\ iKnown = 1
    /\ srcPos = 2

(***************************************************************************)
(* C34: scans are repeatable.  With no mutation in between, a scan begun   *)
(* after the first complete scan and run to its end has yielded the same   *)
(* sequence of rows (rowid, name, payload) as that first complete scan,    *)
(* also for archives in which two entries have the same name.              *)
(***************************************************************************)
C34_ScansRepeatable ==
    (Exhausted("c1") /\ Exhausted("c2")) => cur["c2"].yielded = cur["c1"].yielded

(***************************************************************************)
(* C35: the read handle of the source is released exactly once over the    *)
(* life of the table, at the end of the source or else at xDisconnect, and *)
(* no xFilter / xNext of any cursor reads it after its release.            *)
(***************************************************************************)
C35_HandleReleasedOnce ==
    [][/\ released' <= 1
       /\ conn'.phase = "closed" => released' = 1
       /\ released' > released => (pArchive # 0 /\ (conn'.phase = "closed" \/ pArchive' = 0))
       /\ srcReads' > srcReads => released = 0]_vars

C35_Witness ==
    /\ conn.phase = "closed"
    /\ released = 1
    /\ pArchive = 0
    /\ srcReads = 3
    /\ cur["c1"].iEof = 1 /\ cur["c1"].iRowid = 3
    /\ cur["c2"].rc = "OK" /\ cur["c2"].iEof = 0 /\ cur["c2"].iRowid = 2

(***************************************************************************)
(* C36: for every declared size that fits 64 bits, the payload slot        *)
(* allocated at ingestion has the declared size and the write offset is    *)
(* the number of bytes copied; neither the size nor the rowid iKnown + 1   *)
(* is cut to 32 bits.                                                      *)
(***************************************************************************)
C36_SizesNotTruncated ==
    /\ wide.phase # "header" =>
           (wide.n = wide.size /\ wide.rowid = WidePlusOne(wide.known))
    /\ wide.slot >= 0 => W(wide.slot \div Half, wide.slot % Half) = wide.size
    /\ W(wide.iOffset \div Half, wide.iOffset % Half) = wide.copied

(* A name with its upper-case letters folded. *)
Folded(z) == [i \in 1..Len(z) |-> IF z[i] = "S" THEN "s" ELSE z[i]]

(***************************************************************************)
(* C37: nadekoShadowName returns true (non-zero) exactly when its argument *)
(* equals 'store', compared case-insensitively, and false (zero) for every *)
(* other name.                                                             *)
(***************************************************************************)
C37_ShadowNameIsStore ==
    shadow.called => (shadow.rc # 0 <=> Folded(shadow.pName) = <<"s", "t", "o", "r", "e">>)

(***************************************************************************)
(* C38: a scan of lines(data) terminates for every text or blob value.     *)
(* linesFilter and linesNext never end the process, and every linesNext    *)
(* strictly advances the offset of the cursor, so that linesEof becomes    *)
(* true after at most iBytes + 1 steps.                                    *)
(***************************************************************************)
C38_LinesScanTerminates ==
    [][/\ ~lines'.crashed
       /\ (lines'.nFilters = lines.nFilters /\ lines' # lines)
              => lines'.iOffset > lines.iOffset]_vars

(***************************************************************************)
(* C39: every scan of lines(data) numbers its rows from 1.  The rowid      *)
(* linesRowid reports on the i-th row of a scan is i, also on a cursor     *)
(* that is filtered again after an earlier scan.                           *)
(***************************************************************************)
C39_LinesRowidFromOne ==
    lines.phase = "row" => lines.iRowid = Len(lines.yielded)

(***************************************************************************)
(* C40: the buffer of the lines cursor is valid whenever it is used.       *)
(* After any sequence of linesFilter and linesNext calls the buffer is     *)
(* allocated when it is copied to or read, it is at least iBytes long, and *)
(* no read goes past its allocation.                                       *)
(***************************************************************************)
C40_LinesBufferValid ==
    /\ ~lines.crashed
    /\ ~lines.outside
    /\ lines.type \in {"TEXT", "BLOB"} =>
           (lines.hasBuffer /\ Len(lines.pBuffer) >= lines.iBytes)
    /\ lines.phase = "row" => lines.iOffset + lines.iLength <= Len(lines.pBuffer)

====
